---- MODULE Spec2Model ----
(***************************************************************************)
(* A state-machine model of the BuildingGenerator room generator:          *)
(* URoomGenerator with its uniform and chunky strategies, the static       *)
(* helpers of URoomGenerationHelpers, and the editor actor ARoomActor.     *)
(* The occupancy grid is the row-major array GridState, indexed            *)
(* Y * GridSize.X + X; TLA+ sequences start at 1, so array index i is      *)
(* element i + 1.                                                          *)
(***************************************************************************)
EXTENDS Integers, Sequences, FiniteSets, TLC

\* ------------------------------------------------------------------
\* Bounds of the model
\* ------------------------------------------------------------------
\* side of the larger grid of the floor life cycle
MaxGrid == 4
\* side of the smaller grid of the floor life cycle
SmallGrid == 2
\* number of values a draw of the random stream can take
RandMax == 2
\* side of the grid of the chunky life cycle
ChunkyGrid == 6
\* a chunky generator is not asked for a floor once it holds this many records
MaxFloorRecords == 6
\* the largest side of the rectangles given to the rectangle operations
MaxAreaSize == 2
\* rectangle operations are applied to grids with at most this many changed cells
MaxTouched == 1
\* the largest side of the grids of a chunky generator without protrusions
MaxChunkSide == 8
\* side of the example grid of a chunky generator without protrusions
ExampleGrid == 20

\* ------------------------------------------------------------------
\* Values
\* ------------------------------------------------------------------
Pt(x, y) == [X |-> x, Y |-> y]

ECT_Empty == "Empty"
ECT_FloorMesh == "FloorMesh"
ECT_WallMesh == "WallMesh"
ECT_Doorway == "Doorway"
ECT_Reserved == "Reserved"
ECT_Custom == "Custom"
ECT_Void == "Void"

EGridCellType == {ECT_Empty, ECT_FloorMesh, ECT_WallMesh, ECT_Doorway,
                  ECT_Reserved, ECT_Custom, ECT_Void}

Min(a, b) == IF a < b THEN a ELSE b
Max(a, b) == IF a > b THEN a ELSE b
Clamp(v, lo, hi) == IF v < lo THEN lo ELSE IF v < hi THEN v ELSE hi

\* C++ integer division truncates toward zero, and % is its remainder.
TruncDiv(a, b) == IF a >= 0 THEN a \div b ELSE -((-a) \div b)

CRem(a, b) == a - b * TruncDiv(a, b)

\* F applied to the value of v: v is evaluated once, whatever use F makes of it.
Bind(v, F(_)) == CHOOSE r \in {F(x) : x \in {v}} : TRUE

\* ------------------------------------------------------------------
\* State
\* ------------------------------------------------------------------
VARIABLES
    Strategy,               \* "Uniform" or "Chunky": the class of the generator object
    RoomData,               \* the room data asset handed to Initialize
    ChunkParams,            \* the chunky generator's editable parameters
    DoorDataAsset,          \* the door style asset DA_Door as the designer last saved it
    bIsInitialized,
    GridSize,
    GridState,
    FloorTargetCellType,
    PlacedFloorMeshes,
    TilesPlaced,            \* Large/Medium/Small/FillerTilesPlaced
    PlacedWallMeshes,
    PlacedBaseWallSegments,
    PlacedCeilingTiles,
    PlacedCornerMeshes,
    CornerOccupiedCells,
    PlacedDoorwayMeshes,
    CachedDoorwayLayouts,
    ChunkGridSize,
    BaseRoomSizeChunks,
    BaseRoomSize,
    RoomGenerator,          \* the actor's generator pointer: "None" or "Valid"
    bIsGenerated,
    SpawnedDoorwayActors,
    CellMetadata,           \* the TMap of FCellData as the set of its values
    bTopologyAnalyzed,
    wallScan,                   \* the wall-edge loop in progress, or Idle
    fault,                  \* an array was indexed outside its bounds
    last                    \* the last call: its name, arguments, result, state before

envVars == <<Strategy, RoomData, ChunkParams, DoorDataAsset>>
gridVars == <<bIsInitialized, GridSize, GridState, FloorTargetCellType>>
floorVars == <<PlacedFloorMeshes, TilesPlaced>>
wallVars == <<PlacedWallMeshes, PlacedBaseWallSegments>>
ceilingVars == <<PlacedCeilingTiles>>
cornerVars == <<PlacedCornerMeshes, CornerOccupiedCells>>
doorVars == <<PlacedDoorwayMeshes, CachedDoorwayLayouts>>
chunkVars == <<ChunkGridSize, BaseRoomSizeChunks, BaseRoomSize>>
actorVars == <<RoomGenerator, bIsGenerated, SpawnedDoorwayActors>>
topologyVars == <<CellMetadata, bTopologyAnalyzed>>
scanVars == <<wallScan>>

vars == <<envVars, gridVars, floorVars, wallVars, ceilingVars, cornerVars, doorVars,
          chunkVars, actorVars, topologyVars, scanVars, fault, last>>

\* No wall-edge loop is in progress.
Idle == [op |-> "Idle"]

\* The record kept of a call: its name, result and arguments, and what the
\* properties need of the state before it.  A void call records TRUE.
Call(op, ret, start, size, type) ==
    [op |-> op, ret |-> ret, Start |-> start, Size |-> size, CellType |-> type,
     preGrid |-> <<>>, preFresh |-> FALSE, preAvail |-> FALSE,
     preDoors |-> <<>>, preCache |-> <<>>, preCells |-> {}, reads |-> {},
     outside |-> FALSE, changed |-> FALSE, filled |-> FALSE, postAvail |-> FALSE,
     Rotation |-> 0, Footprint |-> Pt(0, 0), HelperFootprint |-> Pt(0, 0)]

NoArgCall(op, ret) == Call(op, ret, Pt(0, 0), Pt(0, 0), ECT_Empty)

ZeroTiles == [Large |-> 0, Medium |-> 0, Small |-> 0, Filler |-> 0]

\* ------------------------------------------------------------------
\* URoomGenerationHelpers: grid and cell operations
\* ------------------------------------------------------------------
IsValidGridCoordinate(Coord, gridSize) ==
    /\ Coord.X >= 0 /\ Coord.X < gridSize.X
    /\ Coord.Y >= 0 /\ Coord.Y < gridSize.Y

CoordinateToIndex(Coord, GridWidth) == Coord.Y * GridWidth + Coord.X

\* TArray::IsValidIndex
IsValidIndex(grid, Index) == Index >= 0 /\ Index < Len(grid)

\* The k-th cell the loops of IsAreaAvailable visit: rows of Size.X cells.
AreaCell(StartCoord, Size, k) ==
    Pt(StartCoord.X + (k % Size.X), StartCoord.Y + (k \div Size.X))

\* The loops of IsAreaAvailable: [ok, reads], the result and the indices of
\* GridState the loops read.  They return false at the first cell whose index
\* is not in the array or whose state is not RequiredType.
ScanArea(grid, gridSize, StartCoord, Size, RequiredType) ==
    LET n == IF Size.X > 0 /\ Size.Y > 0 THEN Size.X * Size.Y ELSE 0
        Index(k) == CoordinateToIndex(AreaCell(StartCoord, Size, k), gridSize.X)
        Fails == {k \in 0..(n - 1) : \/ ~IsValidIndex(grid, Index(k))
                                     \/ grid[Index(k) + 1] # RequiredType}
        Stop == IF Fails = {} THEN n - 1
                ELSE CHOOSE k \in Fails : \A j \in Fails : k <= j
    IN  [ok |-> Fails = {},
         reads |-> {Index(k) : k \in {j \in 0..Stop : IsValidIndex(grid, Index(j))}}]

\* IsAreaAvailable without its check of the start coordinate.
CheckAreaUpperBoundOnly(grid, gridSize, StartCoord, Size, RequiredType) ==
    IF StartCoord.X + Size.X > gridSize.X \/ StartCoord.Y + Size.Y > gridSize.Y
    THEN [ok |-> FALSE, reads |-> {}]
    ELSE ScanArea(grid, gridSize, StartCoord, Size, RequiredType)

\* URoomGenerationHelpers::IsAreaAvailable: [ok, reads].
CheckArea(grid, gridSize, StartCoord, Size, RequiredType) ==
    IF StartCoord.X + Size.X > gridSize.X \/ StartCoord.Y + Size.Y > gridSize.Y
    THEN [ok |-> FALSE, reads |-> {}]
    ELSE IF ~IsValidGridCoordinate(StartCoord, gridSize)
    THEN [ok |-> FALSE, reads |-> {}]
    ELSE ScanArea(grid, gridSize, StartCoord, Size, RequiredType)

IsAreaAvailableIn(grid, gridSize, StartCoord, Size, RequiredType) ==
    CheckArea(grid, gridSize, StartCoord, Size, RequiredType).ok

MarkCellsOccupied(grid, gridSize, StartCoord, Size, CellType) ==
    [i \in 1..Len(grid) |->
        IF \E Y \in 0..(Size.Y - 1) : \E X \in 0..(Size.X - 1) :
              LET CellCoord == Pt(StartCoord.X + X, StartCoord.Y + Y)
              IN  /\ IsValidGridCoordinate(CellCoord, gridSize)
                  /\ CoordinateToIndex(CellCoord, gridSize.X) = i - 1
        THEN CellType
        ELSE grid[i]]

\* [ok, grid]: the result and the grid after the call
TryPlaceMeshInGrid(grid, gridSize, StartCoord, Size, TargetCellType, PlacementType) ==
    IF ~IsAreaAvailableIn(grid, gridSize, StartCoord, Size, TargetCellType)
    THEN [ok |-> FALSE, grid |-> grid]
    ELSE [ok |-> TRUE,
          grid |-> MarkCellsOccupied(grid, gridSize, StartCoord, Size, PlacementType)]

\* ------------------------------------------------------------------
\* Construction
\* ------------------------------------------------------------------
\* The generator object after NewObject: the member initialisers of the header.
GeneratorConstructed ==
    /\ bIsInitialized = FALSE
    /\ GridSize = Pt(0, 0)
    /\ GridState = <<>>
    /\ FloorTargetCellType = ECT_Empty
    /\ PlacedFloorMeshes = <<>>
    /\ TilesPlaced = ZeroTiles
    /\ PlacedWallMeshes = <<>>
    /\ PlacedBaseWallSegments = <<>>
    /\ PlacedCeilingTiles = <<>>
    /\ PlacedCornerMeshes = <<>>
    /\ CornerOccupiedCells = {}
    /\ PlacedDoorwayMeshes = <<>>
    /\ CachedDoorwayLayouts = <<>>
    /\ ChunkGridSize = Pt(0, 0)
    /\ BaseRoomSizeChunks = Pt(0, 0)
    /\ BaseRoomSize = Pt(0, 0)
    /\ CellMetadata = {}
    /\ bTopologyAnalyzed = FALSE
    /\ wallScan = Idle
    /\ fault = FALSE
    /\ last = NoArgCall("Construct", TRUE)

\* ------------------------------------------------------------------
\* URoomGenerator: grid management
\* ------------------------------------------------------------------
\* Initialize(InRoomData, InGridSize) with a non-null room data asset.
Initialize(InGridSize) ==
    /\ ~fault
    /\ GridSize' = InGridSize
    /\ bIsInitialized' = TRUE
    /\ TilesPlaced' = ZeroTiles
    /\ last' = Call("Initialize", TRUE, Pt(0, 0), InGridSize, ECT_Empty)
    /\ UNCHANGED <<envVars, topologyVars, scanVars, GridState, FloorTargetCellType, PlacedFloorMeshes,
                   wallVars, ceilingVars, cornerVars, doorVars, chunkVars, actorVars, fault>>

UniformCreateGrid ==
    /\ ~fault
    /\ Strategy = "Uniform"
    /\ IF ~bIsInitialized
       THEN UNCHANGED GridState
       ELSE GridState' = [i \in 1..(GridSize.X * GridSize.Y) |-> ECT_Empty]
    /\ last' = NoArgCall("CreateGrid", TRUE)
    /\ UNCHANGED <<envVars, topologyVars, scanVars, bIsInitialized, GridSize, FloorTargetCellType, floorVars,
                   wallVars, ceilingVars, cornerVars, doorVars, chunkVars, actorVars, fault>>

ClearGrid ==
    /\ ~fault
    /\ GridState' = <<>>
    /\ PlacedFloorMeshes' = <<>>
    /\ PlacedWallMeshes' = <<>>
    /\ PlacedBaseWallSegments' = <<>>
    /\ PlacedCeilingTiles' = <<>>
    /\ PlacedDoorwayMeshes' = <<>>
    /\ PlacedCornerMeshes' = <<>>
    /\ TilesPlaced' = ZeroTiles
    /\ bIsInitialized' = FALSE
    /\ last' = NoArgCall("ClearGrid", TRUE)
    /\ UNCHANGED <<envVars, topologyVars, scanVars, GridSize, FloorTargetCellType, CornerOccupiedCells,
                   CachedDoorwayLayouts, chunkVars, actorVars, fault>>

ResetGridCellStates ==
    /\ ~fault
    /\ IF ~bIsInitialized
       THEN UNCHANGED GridState
       ELSE GridState' = [i \in 1..Len(GridState) |->
                            IF GridState[i] = ECT_FloorMesh
                            THEN FloorTargetCellType ELSE GridState[i]]
    /\ last' = NoArgCall("ResetGridCellStates", TRUE)
    /\ UNCHANGED <<envVars, topologyVars, scanVars, bIsInitialized, GridSize, FloorTargetCellType, floorVars,
                   wallVars, ceilingVars, cornerVars, doorVars, chunkVars, actorVars, fault>>

ClearPlacedFloorMeshes ==
    /\ ~fault
    /\ PlacedFloorMeshes' = <<>>
    /\ TilesPlaced' = ZeroTiles
    /\ last' = NoArgCall("ClearPlacedFloorMeshes", TRUE)
    /\ UNCHANGED <<envVars, topologyVars, scanVars, gridVars, wallVars, ceilingVars, cornerVars, doorVars, chunkVars,
                   actorVars, fault>>

\* GetFloorStatistics: the four counters of the generator.
GetFloorStatistics == TilesPlaced

GetCellCountByType(grid, CellType) ==
    Cardinality({i \in 1..Len(grid) : grid[i] = CellType})

\* ------------------------------------------------------------------
\* Random stream: a call draws the values of a tape in turn
\* ------------------------------------------------------------------
Tapes == [1..2 -> 0..(RandMax - 1)]

Draw(tape, k) == tape[(k % Len(tape)) + 1]

RECURSIVE SumWeights(_, _)
SumWeights(Items, n) ==
    IF n = 0 THEN 0 ELSE SumWeights(Items, n - 1) + Items[n].PlacementWeight

\* SelectWeightedRandom on a non-empty array; r is the draw.  FRandRange(0, Total)
\* is taken at r / (RandMax - 1) of its range.
SelectWeightedRandom(Items, r) ==
    LET TotalWeight == SumWeights(Items, Len(Items))
        RandomValue == (r * TotalWeight) \div (RandMax - 1)
        Hits == {i \in 1..Len(Items) : RandomValue <= SumWeights(Items, i)}
    IN  IF TotalWeight <= 0
        THEN Items[(r % Len(Items)) + 1]
        ELSE Items[CHOOSE i \in Hits : \A j \in Hits : i <= j]

\* ------------------------------------------------------------------
\* URoomGenerator: floor generation
\* ------------------------------------------------------------------
CalculateFootprint(MeshInfo) ==
    IF MeshInfo.GridFootprint.X > 0 /\ MeshInfo.GridFootprint.Y > 0
    THEN MeshInfo.GridFootprint
    ELSE Pt(1, 1)

GetRotatedFootprintNoWrap(OriginalFootprint, Rotation) ==
    LET r == CRem(Rotation, 360)
    IN  IF r = 90 \/ r = 270
        THEN Pt(OriginalFootprint.Y, OriginalFootprint.X)
        ELSE OriginalFootprint

\* URoomGenerator::GetRotatedFootprint: the rotation is normalised to 0..359.
GetRotatedFootprint(OriginalFootprint, Rotation) ==
    LET r == CRem(Rotation, 360)
        Normalized == IF r < 0 THEN r + 360 ELSE r
    IN  IF Normalized = 90 \/ Normalized = 270
        THEN Pt(OriginalFootprint.Y, OriginalFootprint.X)
        ELSE OriginalFootprint

\* URoomGenerationHelpers::GetRotatedFootprint.
HelperGetRotatedFootprint(OriginalFootprint, RotationDegrees) ==
    LET r == CRem(RotationDegrees, 360)
        Normalized == IF r < 0 THEN r + 360 ELSE r
    IN  IF Normalized = 90 \/ Normalized = 270
        THEN Pt(OriginalFootprint.Y, OriginalFootprint.X)
        ELSE OriginalFootprint

\* The generator's IsAreaAvailable(StartCoord, Size) on the working state st.
IsAreaAvailable(st, StartCoord, Size) ==
    IsAreaAvailableIn(st.grid, GridSize, StartCoord, Size, FloorTargetCellType)

\* TryPlaceMesh on the working state st = [grid, placed, k, fault, ok].
TryPlaceMesh(st, StartCoord, Size, MeshInfo, Rotation) ==
    LET r == TryPlaceMeshInGrid(st.grid, GridSize, StartCoord, Size,
                                FloorTargetCellType, ECT_FloorMesh)
    IN  IF ~r.ok
        THEN [st EXCEPT !.ok = FALSE]
        ELSE [st EXCEPT !.ok = TRUE, !.grid = r.grid,
                        !.placed = Append(@, [GridPosition |-> StartCoord,
                                              GridFootprint |-> Size,
                                              Rotation |-> Rotation,
                                              MeshInfo |-> MeshInfo])]

\* SetCellState on the working state: GridState[Index] is not range-checked.
SetCellState(st, GridCoord, NewState) ==
    IF ~IsValidGridCoordinate(GridCoord, GridSize)
    THEN [st EXCEPT !.ok = FALSE]
    ELSE LET Index == CoordinateToIndex(GridCoord, GridSize.X)
         IN  IF ~IsValidIndex(st.grid, Index)
             THEN [st EXCEPT !.ok = TRUE, !.fault = TRUE]
             ELSE [st EXCEPT !.ok = TRUE, !.grid = [@ EXCEPT ![Index + 1] = NewState]]

AddUnique(cells, c) ==
    IF \E i \in 1..Len(cells) : cells[i] = c THEN cells ELSE Append(cells, c)

RECURSIVE AddBox(_, _, _, _, _, _)
AddBox(cells, MinX, MaxX, MaxY, X, Y) ==
    IF Y > MaxY THEN cells
    ELSE IF X > MaxX THEN AddBox(cells, MinX, MaxX, MaxY, MinX, Y + 1)
    ELSE Bind(AddUnique(cells, Pt(X, Y)),
              LAMBDA next : AddBox(next, MinX, MaxX, MaxY, X + 1, Y))

RECURSIVE ExpandRegions(_, _, _)
ExpandRegions(cells, Regions, n) ==
    IF n > Len(Regions) THEN cells
    ELSE LET Region == Regions[n]
             MinX == Clamp(Min(Region.StartCell.X, Region.EndCell.X), 0, GridSize.X - 1)
             MaxX == Clamp(Max(Region.StartCell.X, Region.EndCell.X), 0, GridSize.X - 1)
             MinY == Clamp(Min(Region.StartCell.Y, Region.EndCell.Y), 0, GridSize.Y - 1)
             MaxY == Clamp(Max(Region.StartCell.Y, Region.EndCell.Y), 0, GridSize.Y - 1)
         IN  Bind(AddBox(cells, MinX, MaxX, MaxY, MinX, MinY),
                  LAMBDA next : ExpandRegions(next, Regions, n + 1))

RECURSIVE AddValidCells(_, _, _)
AddValidCells(cells, Cells, n) ==
    IF n > Len(Cells) THEN cells
    ELSE Bind(IF IsValidGridCoordinate(Cells[n], GridSize)
              THEN AddUnique(cells, Cells[n]) ELSE cells,
              LAMBDA next : AddValidCells(next, Cells, n + 1))

\* ExpandForcedEmptyRegions without its second loop.
ExpandRegionsOnly == ExpandRegions(<<>>, RoomData.ForcedEmptyRegions, 1)

ExpandForcedEmptyRegions ==
    AddValidCells(ExpandRegions(<<>>, RoomData.ForcedEmptyRegions, 1),
                  RoomData.ForcedEmptyFloorCells, 1)

RECURSIVE MarkForcedEmptyCells(_, _, _)
MarkForcedEmptyCells(st, EmptyCells, n) ==
    IF n > Len(EmptyCells) THEN st
    ELSE Bind(SetCellState(st, EmptyCells[n], ECT_WallMesh),
              LAMBDA next : MarkForcedEmptyCells(next, EmptyCells, n + 1))

\* The last allowed rotation whose footprint fits the grid and is available.
LastFittingRotation(st, StartCoord, MeshInfo) ==
    LET Fitting == {i \in 1..Len(MeshInfo.AllowedRotations) :
                       LET RotatedFootprint ==
                               GetRotatedFootprint(CalculateFootprint(MeshInfo),
                                                   MeshInfo.AllowedRotations[i])
                       IN  /\ StartCoord.X + RotatedFootprint.X <= GridSize.X
                           /\ StartCoord.Y + RotatedFootprint.Y <= GridSize.Y
                           /\ IsAreaAvailable(st, StartCoord, RotatedFootprint)}
    IN  IF Fitting = {} THEN 0 ELSE CHOOSE i \in Fitting : \A j \in Fitting : i >= j

\* The first allowed rotation whose footprint fits the grid and is available:
\* its index in AllowedRotations, or 0 when there is none.
FirstFittingRotation(st, StartCoord, MeshInfo) ==
    LET Fits(i) ==
            LET RotatedFootprint ==
                    GetRotatedFootprint(CalculateFootprint(MeshInfo),
                                        MeshInfo.AllowedRotations[i])
            IN  /\ StartCoord.X + RotatedFootprint.X <= GridSize.X
                /\ StartCoord.Y + RotatedFootprint.Y <= GridSize.Y
                /\ IsAreaAvailable(st, StartCoord, RotatedFootprint)
        Fitting == {i \in 1..Len(MeshInfo.AllowedRotations) : Fits(i)}
    IN  IF Fitting = {} THEN 0 ELSE CHOOSE i \in Fitting : \A j \in Fitting : i <= j

\* One iteration of the loop of ExecuteForcedPlacements.
ForcedPlacement(st, StartCoord, MeshInfo) ==
    LET OriginalFootprint == CalculateFootprint(MeshInfo)
        first == FirstFittingRotation(st, StartCoord, MeshInfo)
        BestRotation == IF Len(MeshInfo.AllowedRotations) > 0
                        THEN IF first = 0 THEN -1 ELSE MeshInfo.AllowedRotations[first]
                        ELSE 0
        BestFootprint == IF Len(MeshInfo.AllowedRotations) > 0
                         THEN GetRotatedFootprint(OriginalFootprint, BestRotation)
                         ELSE OriginalFootprint
    IN  IF MeshInfo.MeshAsset = "None" THEN st
        ELSE IF BestRotation = -1 THEN st
        ELSE IF \/ StartCoord.X + BestFootprint.X > GridSize.X
                \/ StartCoord.Y + BestFootprint.Y > GridSize.Y THEN st
        ELSE IF ~IsAreaAvailable(st, StartCoord, BestFootprint) THEN st
        ELSE TryPlaceMesh(st, StartCoord, BestFootprint, MeshInfo, BestRotation)

RECURSIVE ExecuteForcedPlacements(_, _, _)
ExecuteForcedPlacements(st, ForcedPlacements, n) ==
    IF n > Len(ForcedPlacements) THEN st
    ELSE Bind(ForcedPlacement(st, ForcedPlacements[n].Key, ForcedPlacements[n].Value),
              LAMBDA next : ExecuteForcedPlacements(next, ForcedPlacements, n + 1))

\* The tiles of the pool whose footprint is TargetSize or TargetSize turned.
MatchingTiles(TilePool, TargetSize) ==
    SelectSeq(TilePool,
              LAMBDA MeshInfo :
                 LET Footprint == CalculateFootprint(MeshInfo)
                 IN  \/ (Footprint.X = TargetSize.X /\ Footprint.Y = TargetSize.Y)
                     \/ (Footprint.X = TargetSize.Y /\ Footprint.Y = TargetSize.X))

\* The allowed rotations of the mesh that give it the footprint TargetSize.
ValidRotations(SelectedMesh, TargetSize) ==
    SelectSeq(SelectedMesh.AllowedRotations,
              LAMBDA Rotation :
                 GetRotatedFootprint(CalculateFootprint(SelectedMesh), Rotation)
                     = TargetSize)

\* The body of the scan at one start cell: select a mesh and a rotation with
\* the next draws of the tape, then TryPlaceMesh.
PlaceAt(st, StartCoord, TargetSize, Matching, tape) ==
    IF ~IsAreaAvailable(st, StartCoord, TargetSize) THEN st
    ELSE LET SelectedMesh == SelectWeightedRandom(Matching, Draw(tape, st.k))
             Valid == ValidRotations(SelectedMesh, TargetSize)
             BestRotation == IF Len(Valid) > 0
                             THEN Valid[(Draw(tape, st.k + 1) % Len(Valid)) + 1]
                             ELSE 0
             drawn == [st EXCEPT !.k = @ + (IF Len(Valid) > 0 THEN 2 ELSE 1)]
         IN  TryPlaceMesh(drawn, StartCoord, TargetSize, SelectedMesh, BestRotation)

\* The inner loop of the scan: row Y from column X on.
RECURSIVE ScanRow(_, _, _, _, _, _)
ScanRow(st, X, Y, TargetSize, Matching, tape) ==
    IF X >= GridSize.X THEN st
    ELSE Bind(PlaceAt(st, Pt(X, Y), TargetSize, Matching, tape),
              LAMBDA next : ScanRow(next, X + 1, Y, TargetSize, Matching, tape))

\* The row-major scan (Y outer, X inner), from row Y on.
RECURSIVE ScanGrid(_, _, _, _, _)
ScanGrid(st, Y, TargetSize, Matching, tape) ==
    IF Y >= GridSize.Y THEN st
    ELSE Bind(ScanRow(st, 0, Y, TargetSize, Matching, tape),
              LAMBDA next : ScanGrid(next, Y + 1, TargetSize, Matching, tape))

FillWithTileSize(st, TilePool, TargetSize, tape) ==
    LET Matching == MatchingTiles(TilePool, TargetSize)
    IN  IF Len(Matching) = 0 THEN st
        ELSE ScanGrid(st, 0, TargetSize, Matching, tape)

RECURSIVE FillSizes(_, _, _, _, _)
FillSizes(st, TilePool, Sizes, n, tape) ==
    IF n > Len(Sizes) THEN st
    ELSE Bind(FillWithTileSize(st, TilePool, Sizes[n], tape),
              LAMBDA next : FillSizes(next, TilePool, Sizes, n + 1, tape))

\* The sizes GenerateFloor fills with, in its order.
GreedySizes == <<Pt(4, 4), Pt(2, 4), Pt(4, 2), Pt(2, 2), Pt(1, 2), Pt(2, 1), Pt(1, 1)>>

\* The sizes FillRemainingGaps tries, in its order.
SizesToTry == <<Pt(1, 4), Pt(4, 1), Pt(1, 2), Pt(2, 1), Pt(1, 1)>>

FillRemainingGaps(st, TilePool, tape) ==
    IF Len(TilePool) = 0 THEN st ELSE FillSizes(st, TilePool, SizesToTry, 1, tape)

\* The phases of GenerateFloor on the working state st.
FloorPhases(st, tape) ==
    LET FloorMeshes == RoomData.FloorStyleData[1].FloorTilePool
        Phase0(s) == Bind(ExpandForcedEmptyRegions,
                          LAMBDA ForcedEmptyCells :
                              MarkForcedEmptyCells(s, ForcedEmptyCells, 1))
        Phase1(s) == ExecuteForcedPlacements(s, RoomData.ForcedFloorPlacements, 1)
        Phase2(s) == FillSizes(s, FloorMeshes, GreedySizes, 1, tape)
        Phase3(s) == FillRemainingGaps(s, FloorMeshes, tape)
    IN  Bind(Bind(Bind(Bind(st, Phase0), Phase1), Phase2), Phase3)

\* The guards of GenerateFloor: initialised, a floor style, a tile in its pool.
CanGenerateFloor ==
    /\ bIsInitialized
    /\ Len(RoomData.FloorStyleData) > 0
    /\ Len(RoomData.FloorStyleData[1].FloorTilePool) > 0

\* The grid as CreateGrid of the uniform strategy leaves it.
IsFreshUniformGrid ==
    /\ Len(GridState) = GridSize.X * GridSize.Y
    /\ \A i \in 1..Len(GridState) : GridState[i] = ECT_Empty

Working(placed) == [grid |-> GridState, placed |-> placed, k |-> 0,
                    fault |-> FALSE, ok |-> TRUE]

\* URoomGenerator::GenerateFloor and its copy in UUniformRoomGenerator.
UniformGenerateFloor(tape) ==
    /\ ~fault
    /\ Strategy = "Uniform"
    /\ IF ~CanGenerateFloor
       THEN /\ last' = NoArgCall("GenerateFloor", FALSE)
            /\ UNCHANGED <<GridState, floorVars, fault>>
       ELSE \E st \in {FloorPhases(Working(<<>>), tape)} :
                /\ GridState' = st.grid
                /\ PlacedFloorMeshes' = st.placed
                /\ TilesPlaced' = ZeroTiles
                /\ fault' = st.fault
                /\ last' = [NoArgCall("GenerateFloor", TRUE)
                               EXCEPT !.preFresh = IsFreshUniformGrid]
    /\ UNCHANGED <<envVars, topologyVars, scanVars, bIsInitialized, GridSize, FloorTargetCellType,
                   wallVars, ceilingVars, cornerVars, doorVars, chunkVars, actorVars>>

\* UChunkyRoomGenerator::GenerateFloor: the call of ClearPlacedFloorMeshes is
\* commented out, so the records of earlier calls stay in the list.
ChunkyGenerateFloor(tape) ==
    /\ ~fault
    /\ Strategy = "Chunky"
    /\ Len(PlacedFloorMeshes) < MaxFloorRecords
    /\ IF ~CanGenerateFloor
       THEN /\ last' = NoArgCall("GenerateFloor", FALSE)
            /\ UNCHANGED <<GridState, floorVars, fault>>
       ELSE \E st \in {FloorPhases(Working(PlacedFloorMeshes), tape)} :
                /\ GridState' = st.grid
                /\ PlacedFloorMeshes' = st.placed
                /\ TilesPlaced' = TilesPlaced
                /\ fault' = st.fault
                /\ last' = NoArgCall("GenerateFloor", TRUE)
    /\ UNCHANGED <<envVars, topologyVars, scanVars, bIsInitialized, GridSize, FloorTargetCellType,
                   wallVars, ceilingVars, cornerVars, doorVars, chunkVars, actorVars>>

\* ------------------------------------------------------------------
\* UChunkyRoomGenerator: grid creation
\* ------------------------------------------------------------------
\* EWallEdge in the order of its values 0..3.
EdgeOfIndex == <<"North", "South", "East", "West">>

\* FRandomStream: the stream of a seed is a fixed sequence of draws, here the
\* base-4 digits of the seed; RandRange(Min, Max) maps draw i into Min..Max.
StreamDraw(seed, i) == (seed \div (4 ^ (i - 1))) % 4

RandRange(seed, i, lo, hi) == lo + (StreamDraw(seed, i) % (hi - lo + 1))

\* The draws CreateGrid makes: one for the number of protrusions, four for each.
StreamLen == 1 + 4 * ChunkParams.MaxProtrusions

AnyStreamSeed == 0..(4 ^ StreamLen - 1)

\* RandomSeed -1 seeds the stream from the global generator: any seed.
StreamSeeds ==
    IF ChunkParams.RandomSeed = -1
    THEN 0..(4 ^ StreamLen - 1)
    ELSE {ChunkParams.RandomSeed}

\* The chunks of a rectangle that lie in the chunk grid.
MarkChunkRectangle(chunks, chunkGrid, StartX, StartY, Width, Height) ==
    chunks \cup {c \in [X : 0..(chunkGrid.X - 1), Y : 0..(chunkGrid.Y - 1)] :
                    /\ c.X >= StartX /\ c.X < StartX + Width
                    /\ c.Y >= StartY /\ c.Y < StartY + Height}

\* A protrusion whose position along the edge starts past the end of the edge.
ProtrusionPastEdge(chunks, chunkGrid, baseChunks, seed, i) ==
    LET Edge == EdgeOfIndex[RandRange(seed, i, 0, 3) + 1]
        ProtrusionWidthChunks ==
            RandRange(seed, i + 1, ChunkParams.MinProtrusionSizeChunks,
                      ChunkParams.MaxProtrusionSizeChunks)
        ProtrusionDepthChunks ==
            RandRange(seed, i + 2, ChunkParams.MinProtrusionSizeChunks,
                      ChunkParams.MaxProtrusionSizeChunks)
        EdgeLength == IF Edge \in {"North", "South"} THEN baseChunks.X ELSE baseChunks.Y
        Position == EdgeLength
                        + RandRange(seed, i + 3, 0, Max(1, EdgeLength - ProtrusionWidthChunks))
        StartChunks ==
            CASE Edge = "North" -> Pt(Position, baseChunks.Y)
              [] Edge = "South" -> Pt(Position, 0 - ProtrusionDepthChunks)
              [] Edge = "East"  -> Pt(baseChunks.X, Position)
              [] Edge = "West"  -> Pt(0 - ProtrusionDepthChunks, Position)
        SizeChunks ==
            IF Edge \in {"North", "South"}
            THEN Pt(ProtrusionWidthChunks, ProtrusionDepthChunks)
            ELSE Pt(ProtrusionDepthChunks, ProtrusionWidthChunks)
        ClampedStartX == Clamp(StartChunks.X, 0, chunkGrid.X - 1)
        ClampedStartY == Clamp(StartChunks.Y, 0, chunkGrid.Y - 1)
        ClampedWidth == Min(SizeChunks.X, chunkGrid.X - ClampedStartX)
        ClampedHeight == Min(SizeChunks.Y, chunkGrid.Y - ClampedStartY)
    IN  IF /\ ClampedWidth >= ChunkParams.MinProtrusionSizeChunks
           /\ ClampedHeight >= ChunkParams.MinProtrusionSizeChunks
        THEN MarkChunkRectangle(chunks, chunkGrid, ClampedStartX, ClampedStartY,
                                ClampedWidth, ClampedHeight)
        ELSE chunks

\* The protrusion that starts at draw i of the stream.
AddRandomProtrusionChunked(chunks, chunkGrid, baseChunks, seed, i) ==
    LET Edge == EdgeOfIndex[RandRange(seed, i, 0, 3) + 1]
        ProtrusionWidthChunks ==
            RandRange(seed, i + 1, ChunkParams.MinProtrusionSizeChunks,
                      ChunkParams.MaxProtrusionSizeChunks)
        ProtrusionDepthChunks ==
            RandRange(seed, i + 2, ChunkParams.MinProtrusionSizeChunks,
                      ChunkParams.MaxProtrusionSizeChunks)
        EdgeLength == IF Edge \in {"North", "South"} THEN baseChunks.X ELSE baseChunks.Y
        Position == RandRange(seed, i + 3, 0, Max(1, EdgeLength - ProtrusionWidthChunks))
        StartChunks ==
            CASE Edge = "North" -> Pt(Position, baseChunks.Y)
              [] Edge = "South" -> Pt(Position, 0 - ProtrusionDepthChunks)
              [] Edge = "East"  -> Pt(baseChunks.X, Position)
              [] Edge = "West"  -> Pt(0 - ProtrusionDepthChunks, Position)
        SizeChunks ==
            IF Edge \in {"North", "South"}
            THEN Pt(ProtrusionWidthChunks, ProtrusionDepthChunks)
            ELSE Pt(ProtrusionDepthChunks, ProtrusionWidthChunks)
        ClampedStartX == Clamp(StartChunks.X, 0, chunkGrid.X - 1)
        ClampedStartY == Clamp(StartChunks.Y, 0, chunkGrid.Y - 1)
        ClampedWidth == Min(SizeChunks.X, chunkGrid.X - ClampedStartX)
        ClampedHeight == Min(SizeChunks.Y, chunkGrid.Y - ClampedStartY)
    IN  IF /\ ClampedWidth >= ChunkParams.MinProtrusionSizeChunks
           /\ ClampedHeight >= ChunkParams.MinProtrusionSizeChunks
        THEN MarkChunkRectangle(chunks, chunkGrid, ClampedStartX, ClampedStartY,
                                ClampedWidth, ClampedHeight)
        ELSE chunks

\* Protrusions n .. NumProtrusions of the loop of CreateGrid.
RECURSIVE AddProtrusions(_, _, _, _, _, _)
AddProtrusions(chunks, chunkGrid, baseChunks, seed, n, NumProtrusions) ==
    IF n > NumProtrusions THEN chunks
    ELSE Bind(AddRandomProtrusionChunked(chunks, chunkGrid, baseChunks, seed,
                                         4 * n - 2),
              LAMBDA next : AddProtrusions(next, chunkGrid, baseChunks, seed,
                                           n + 1, NumProtrusions))

\* Every cell of a room chunk becomes ECT_Custom; the grid was just set to
\* GridSize.X * GridSize.Y cells, all ECT_Void.
ConvertChunksToCells(chunks, gridSize) ==
    [i \in 1..(gridSize.X * gridSize.Y) |->
        IF Pt(((i - 1) % gridSize.X) \div 2, ((i - 1) \div gridSize.X) \div 2) \in chunks
        THEN ECT_Custom ELSE ECT_Void]

\* (int32)(ChunkGridSize * BaseRoomPercentage), forced even, at least 2.  The
\* percentage is a fraction Num / Den with Den a power of two, for which the
\* float product is exact.
\* BaseRoomSizeChunks without the rounding to an even number of chunks.
BaseChunksNotEven(chunkDim) ==
    Max(2, (chunkDim * ChunkParams.BaseRoomPercentage.Num)
               \div ChunkParams.BaseRoomPercentage.Den)

BaseChunks(chunkDim) ==
    LET BaseWidthChunks ==
            (chunkDim * ChunkParams.BaseRoomPercentage.Num)
                \div ChunkParams.BaseRoomPercentage.Den
    IN  Max(2, (BaseWidthChunks \div 2) * 2)

ChunkyCreateGrid(seed) ==
    /\ ~fault
    /\ Strategy = "Chunky"
    /\ IF ~bIsInitialized
       THEN UNCHANGED <<GridState, FloorTargetCellType, chunkVars>>
       ELSE LET chunkGrid == Pt(GridSize.X \div 2, GridSize.Y \div 2)
                baseChunks == Pt(BaseChunks(chunkGrid.X), BaseChunks(chunkGrid.Y))
                base == MarkChunkRectangle({}, chunkGrid, 0, 0,
                                           baseChunks.X, baseChunks.Y)
                NumProtrusions == RandRange(seed, 1, ChunkParams.MinProtrusions,
                                            ChunkParams.MaxProtrusions)
                ChunkState == AddProtrusions(base, chunkGrid, baseChunks, seed,
                                             1, NumProtrusions)
            IN  /\ FloorTargetCellType' = ECT_Custom
                /\ ChunkGridSize' = chunkGrid
                /\ IF chunkGrid.X < 2 \/ chunkGrid.Y < 2
                   THEN UNCHANGED <<GridState, BaseRoomSizeChunks, BaseRoomSize>>
                   ELSE /\ BaseRoomSizeChunks' = baseChunks
                        /\ BaseRoomSize' = Pt(baseChunks.X * 2, baseChunks.Y * 2)
                        /\ GridState' = ConvertChunksToCells(ChunkState, GridSize)
    /\ last' = [NoArgCall("CreateGrid", TRUE) EXCEPT !.preFresh = (GridState = <<>>)]
    /\ UNCHANGED <<envVars, topologyVars, scanVars, bIsInitialized, GridSize, floorVars, wallVars, ceilingVars,
                   cornerVars, doorVars, actorVars, fault>>

\* ------------------------------------------------------------------
\* UChunkyRoomGenerator: interior corners
\* ------------------------------------------------------------------
\* What a read of GridState past the end of the array yields.
OutOfArray == "OutOfArray"

\* GetCellState on the grid: GridState[Index] is not range-checked.
GetCellState(grid, GridCoord) ==
    IF ~IsValidGridCoordinate(GridCoord, GridSize) THEN ECT_Empty
    ELSE IF IsValidIndex(grid, CoordinateToIndex(GridCoord, GridSize.X))
    THEN grid[CoordinateToIndex(GridCoord, GridSize.X) + 1]
    ELSE OutOfArray

GetDirectionOffset(Direction) ==
    CASE Direction = "North" -> Pt(1, 0)
      [] Direction = "South" -> Pt(-1, 0)
      [] Direction = "East" -> Pt(0, 1)
      [] Direction = "West" -> Pt(0, -1)

Neighbor(Cell, Edge) ==
    Pt(Cell.X + GetDirectionOffset(Edge).X, Cell.Y + GetDirectionOffset(Edge).Y)

\* OutAdjacentFloorEdges: the edges, in the order North, South, East, West,
\* towards a neighbour inside the grid whose state is ECT_Custom.
AdjacentFloorEdges(grid, Cell) ==
    SelectSeq(EdgeOfIndex,
              LAMBDA Edge : /\ IsValidGridCoordinate(Neighbor(Cell, Edge), GridSize)
                            /\ GetCellState(grid, Neighbor(Cell, Edge)) = ECT_Custom)

OppositeEdges(Edge1, Edge2) ==
    \/ Edge1 = "North" /\ Edge2 = "South"
    \/ Edge1 = "South" /\ Edge2 = "North"
    \/ Edge1 = "East" /\ Edge2 = "West"
    \/ Edge1 = "West" /\ Edge2 = "East"

IsVoidCornerCell(grid, Cell) ==
    /\ GetCellState(grid, Cell) = ECT_Void
    /\ Len(AdjacentFloorEdges(grid, Cell)) = 2
    /\ ~OppositeEdges(AdjacentFloorEdges(grid, Cell)[1],
                      AdjacentFloorEdges(grid, Cell)[2])

\* The cells of the grid in the order of the scan: rows of GridSize.X cells.
ScanOrder ==
    [k \in 1..(GridSize.X * GridSize.Y) |->
        Pt((k - 1) % GridSize.X, (k - 1) \div GridSize.X)]

\* The scan reads a cell of GridState that the array does not have.
CornerScanReadsOutside(grid) ==
    \E k \in 1..Len(ScanOrder) :
        \/ GetCellState(grid, ScanOrder[k]) = OutOfArray
        \/ /\ GetCellState(grid, ScanOrder[k]) = ECT_Void
           /\ \E Edge \in {"North", "South", "East", "West"} :
                 GetCellState(grid, Neighbor(ScanOrder[k], Edge)) = OutOfArray

\* GenerateInteriorCorners: the void cells that get a corner, in scan order.
GenerateInteriorCorners(grid) ==
    SelectSeq(ScanOrder, LAMBDA Cell : IsVoidCornerCell(grid, Cell))

ChunkyGenerateCorners ==
    /\ ~fault
    /\ Strategy = "Chunky"
    /\ IF \/ ~bIsInitialized
          \/ Len(RoomData.WallStyleData) = 0
          \/ ~RoomData.WallStyleData[1].DefaultCornerMesh
       THEN /\ last' = NoArgCall("GenerateCorners", FALSE)
            /\ UNCHANGED <<cornerVars, fault>>
       ELSE IF CornerScanReadsOutside(GridState)
       THEN /\ PlacedCornerMeshes' = <<>>
            /\ CornerOccupiedCells' = {}
            /\ fault' = TRUE
            /\ last' = NoArgCall("GenerateCorners", TRUE)
       ELSE \E Corners \in {GenerateInteriorCorners(GridState)} :
              /\ PlacedCornerMeshes' =
                    [i \in 1..Len(Corners) |-> [Corner |-> "None", Cell |-> Corners[i]]]
              /\ CornerOccupiedCells' = {Corners[i] : i \in 1..Len(Corners)}
              /\ fault' = FALSE
              /\ last' = NoArgCall("GenerateCorners", TRUE)
    /\ UNCHANGED <<envVars, topologyVars, scanVars, gridVars, floorVars, wallVars, ceilingVars, doorVars, chunkVars,
                   actorVars>>

\* ------------------------------------------------------------------
\* Room data of the floor life cycle
\* ------------------------------------------------------------------
Tile(fx, fy, rotations, weight, mesh) ==
    [GridFootprint |-> Pt(fx, fy), AllowedRotations |-> rotations,
     PlacementWeight |-> weight, MeshAsset |-> mesh]

Tile1x1 == Tile(1, 1, <<0>>, 1, "SM_Floor_1x1")
TileAuto == Tile(0, 0, <<>>, 0, "SM_Floor_Auto")
Tile2x2 == Tile(2, 2, <<0, 90, 180, 270>>, 1, "SM_Floor_2x2")
Tile1x2 == Tile(1, 2, <<0, 90>>, 1, "SM_Floor_1x2")
Tile2x1 == Tile(2, 1, <<0, 90>>, 1, "SM_Floor_2x1")
Tile1x2Fixed == Tile(1, 2, <<>>, 1, "SM_Floor_1x2")
Tile1x2Back == Tile(1, 2, <<-90, 0>>, 1, "SM_Floor_1x2")
Tile2x1Only0 == Tile(2, 1, <<0, 180>>, 1, "SM_Floor_2x1")
Tile1x3 == Tile(1, 3, <<0, 90>>, 1, "SM_Floor_1x3")
TileNoMesh1x1 == Tile(1, 1, <<0>>, 1, "None")

ForcedFloor(x, y, tile) == [Key |-> Pt(x, y), Value |-> tile]

Region(sx, sy, ex, ey) == [StartCell |-> Pt(sx, sy), EndCell |-> Pt(ex, ey)]

FloorData(pool, regions, cells, forced) ==
    [FloorTilePool |-> pool, Regions |-> regions, Cells |-> cells, Forced |-> forced]

\* The floor data the life cycle is run with: pool, forced-empty regions and
\* cells, forced placements.
FloorDataChoices ==
    {FloorData(<<>>, <<>>, <<>>, <<>>),
     FloorData(<<Tile1x1>>, <<>>, <<>>, <<>>),
     FloorData(<<TileAuto, Tile1x1>>, <<>>, <<Pt(0, 0)>>, <<>>),
     FloorData(<<Tile1x1>>, <<Region(1, 1, 1, 0)>>, <<Pt(1, 1), Pt(0, 2)>>, <<>>),
     FloorData(<<Tile2x2, Tile1x1>>, <<>>, <<>>, <<[Key |-> Pt(0, 0), Value |-> Tile2x2]>>),
     FloorData(<<Tile1x2>>, <<>>, <<Pt(1, 0)>>, <<>>),
     FloorData(<<Tile1x1>>, <<>>, <<>>,
               <<ForcedFloor(1, 0, Tile1x2), ForcedFloor(0, 1, Tile2x1), ForcedFloor(0, 0, Tile2x2),
                 ForcedFloor(1, 2, Tile1x2Fixed)>>),
     FloorData(<<Tile1x1>>, <<>>, <<Pt(0, 0)>>,
               <<ForcedFloor(0, 0, Tile1x1), ForcedFloor(1, 1, Tile1x3), ForcedFloor(0, 2, Tile1x2Back),
                 ForcedFloor(1, 0, TileNoMesh1x1)>>),
     FloorData(<<Tile1x1>>,
               <<Region(MaxGrid + 1, MaxGrid + 1, MaxGrid + 2, MaxGrid + 2), Region(0, 1, 1, 1)>>,
               <<Pt(1, 1), Pt(0 - 1, 0)>>, <<>>),
     FloorData(<<Tile1x2Fixed>>, <<>>, <<>>, <<>>),
     FloorData(<<Tile2x1Only0, Tile1x1>>, <<>>, <<>>, <<ForcedFloor(0, 0, Tile1x2)>>)}

DefaultRoomData ==
    [FloorStyleData |-> <<[FloorTilePool |-> <<Tile1x1>>]>>,
     ForcedEmptyRegions |-> <<>>,
     ForcedEmptyFloorCells |-> <<>>,
     ForcedFloorPlacements |-> <<>>,
     WallStyleData |-> <<[DefaultCornerMesh |-> TRUE, AvailableWallModules |-> <<>>]>>,
     ForcedWallPlacements |-> <<>>,
     CeilingStyleData |-> <<[CeilingTilePool |-> <<Tile1x1>>]>>,
     ForcedCeilingPlacements |-> <<>>,
     ForcedDoorways |-> <<>>,
     DefaultDoorData |-> "None",
     bGenerateStandardDoorway |-> FALSE,
     bSetStandardDoorwayEdge |-> FALSE,
     StandardDoorwayEdge |-> "North",
     bMultipleDoorways |-> FALSE,
     NumAutomaticDoorways |-> 2,
     StandardDoorwayWidth |-> 2]

\* A door position offset pair; the vectors are kept as their X and Y parts.
Offsets(frame, actor) == [FramePositionOffset |-> frame, ActorPositionOffset |-> actor]

ZeroOffsets == Offsets(Pt(0, 0), Pt(0, 0))

\* The door style asset: its total width in cells, its offsets per edge and
\* its frame rotation offset (yaw).
DoorStyle(width, offsets) ==
    [TotalDoorwayWidth |-> width,
     EdgeOffsets |-> [e \in {"North", "South", "East", "West"} |-> offsets],
     FrameRotationOffset |-> 0]

DefaultDoorStyle == DoorStyle(2, ZeroOffsets)

\* The chunky generator's parameters; the percentage is the fraction Num / Den.
Params(minP, maxP, minSize, maxSize, num, den, seed) ==
    [MinProtrusions |-> minP, MaxProtrusions |-> maxP,
     MinProtrusionSizeChunks |-> minSize, MaxProtrusionSizeChunks |-> maxSize,
     BaseRoomPercentage |-> [Num |-> num, Den |-> den], RandomSeed |-> seed]

NoProtrusions == Params(0, 0, 2, 2, 1, 2, -1)

ActorUnused ==
    /\ RoomGenerator = "Valid"
    /\ bIsGenerated = FALSE
    /\ SpawnedDoorwayActors = 0

\* ------------------------------------------------------------------
\* The floor life cycle of a uniform generator
\* ------------------------------------------------------------------
GridSizes == {Pt(SmallGrid, SmallGrid + 1), Pt(MaxGrid, MaxGrid)}

FloorRoomData(fd) ==
    [DefaultRoomData EXCEPT
        !.FloorStyleData = <<[FloorTilePool |-> fd.FloorTilePool]>>,
        !.ForcedEmptyRegions = fd.Regions,
        !.ForcedEmptyFloorCells = fd.Cells,
        !.ForcedFloorPlacements = fd.Forced]

Init ==
    /\ Strategy = "Uniform"
    /\ \E fd \in FloorDataChoices : RoomData = FloorRoomData(fd)
    /\ ChunkParams = NoProtrusions
    /\ DoorDataAsset = DefaultDoorStyle
    /\ GeneratorConstructed
    /\ ActorUnused

Next ==
    \/ \E size \in GridSizes : Initialize(size)
    \/ UniformCreateGrid
    \/ \E tape \in Tapes : UniformGenerateFloor(tape)
    \/ ResetGridCellStates
    \/ ClearPlacedFloorMeshes
    \/ ClearGrid

Spec == Init /\ [][Next]_vars

\* ------------------------------------------------------------------
\* The life cycle of a chunky generator
\* ------------------------------------------------------------------
ChunkyGridSizes == {Pt(SmallGrid, SmallGrid + 1), Pt(ChunkyGrid, ChunkyGrid)}

ChunkyFloorDataChoices ==
    {FloorData(<<Tile2x2>>, <<>>, <<>>, <<>>),
     FloorData(<<Tile2x2, Tile1x1>>, <<>>, <<Pt(0, 0)>>, <<>>)}

ChunkySeeds == {0, 325, 341}

InitChunky ==
    /\ Strategy = "Chunky"
    /\ \E fd \in ChunkyFloorDataChoices : RoomData = FloorRoomData(fd)
    /\ \E seed \in ChunkySeeds : ChunkParams = Params(0, 1, 2, 3, 3, 4, seed)
    /\ DoorDataAsset = DefaultDoorStyle
    /\ GeneratorConstructed
    /\ ActorUnused

\* The spawners initialise a generator only while it is not initialised.
InitializeIfNeeded(InGridSize) ==
    /\ ~bIsInitialized
    /\ Initialize(InGridSize)

NextChunky ==
    \/ \E size \in ChunkyGridSizes : InitializeIfNeeded(size)
    \/ \E seed \in StreamSeeds : ChunkyCreateGrid(seed)
    \/ \E tape \in {t \in Tapes : t[1] = t[2]} : ChunkyGenerateFloor(tape)
    \/ ChunkyGenerateCorners
    \/ ResetGridCellStates
    \/ ClearPlacedFloorMeshes
    \/ ClearGrid

SpecChunky == InitChunky /\ [][NextChunky]_vars

\* ------------------------------------------------------------------
\* The grids of a chunky generator without protrusions
\* ------------------------------------------------------------------
\* BaseRoomPercentage, as fractions within its range 0.3 .. 0.95.
BasePercentages ==
    {<<3, 10>>, <<1, 2>>, <<7, 10>>, <<3, 4>>, <<19, 20>>}

ChunkGridSides == 3..MaxChunkSide

InitChunkGrid ==
    /\ Strategy = "Chunky"
    /\ RoomData = DefaultRoomData
    /\ \E pct \in BasePercentages : \E seed \in {-1, 0} :
          ChunkParams = Params(0, 0, 2, 2, pct[1], pct[2], seed)
    /\ DoorDataAsset = DefaultDoorStyle
    /\ GeneratorConstructed
    /\ ActorUnused

NextChunkGrid ==
    \/ \E W \in ChunkGridSides : \E H \in ChunkGridSides :
          InitializeIfNeeded(Pt(W, H))
    \/ InitializeIfNeeded(Pt(ExampleGrid, ExampleGrid))
    \/ \E seed \in StreamSeeds : ChunkyCreateGrid(seed)
    \/ ClearGrid

SpecChunkGrid == InitChunkGrid /\ [][NextChunkGrid]_vars

\* ------------------------------------------------------------------
\* The rectangle operations of a generator
\* ------------------------------------------------------------------
\* The cells of the rectangle [StartCoord, StartCoord + Size).
RectCells(StartCoord, Size) ==
    {Pt(StartCoord.X + X, StartCoord.Y + Y) :
        X \in 0..(Size.X - 1), Y \in 0..(Size.Y - 1)}

\* The record of a rectangle operation that leaves the grid as grid.  It keeps,
\* in place of the rectangle, what the properties ask of it: whether it was
\* available for the fillable type before the call (preAvail) and is after it
\* (postAvail), whether a cell of it is outside the grid (outside), whether
\* every cell of it is in the grid with state CellType after the call (filled),
\* and whether the call changed a cell (changed).
AreaCall(op, ret, StartCoord, Size, CellType, grid) ==
    [Call(op, ret, Pt(0, 0), Pt(0, 0), CellType) EXCEPT
        !.preAvail = IsAreaAvailableIn(GridState, GridSize, StartCoord, Size,
                                       FloorTargetCellType),
        !.postAvail = IsAreaAvailableIn(grid, GridSize, StartCoord, Size,
                                        FloorTargetCellType),
        !.outside = \E c \in RectCells(StartCoord, Size) :
                        ~IsValidGridCoordinate(c, GridSize),
        !.filled = \A c \in RectCells(StartCoord, Size) :
                       /\ IsValidGridCoordinate(c, GridSize)
                       /\ IsValidIndex(grid, CoordinateToIndex(c, GridSize.X))
                       /\ grid[CoordinateToIndex(c, GridSize.X) + 1] = CellType,
        !.changed = (grid # GridState)]

MarkArea(StartCoord, Size, CellType) ==
    /\ ~fault
    /\ \E avail \in {IsAreaAvailableIn(GridState, GridSize, StartCoord, Size,
                                        ECT_Empty)} :
          /\ GridState' = IF avail
                          THEN MarkCellsOccupied(GridState, GridSize, StartCoord,
                                                 Size, CellType)
                          ELSE GridState
          /\ last' = AreaCall("MarkArea", avail, StartCoord, Size, CellType,
                              GridState')
    /\ UNCHANGED <<envVars, topologyVars, scanVars, bIsInitialized, GridSize, FloorTargetCellType, floorVars,
                   wallVars, ceilingVars, cornerVars, doorVars, chunkVars, actorVars, fault>>

ClearArea(StartCoord, Size) ==
    /\ ~fault
    /\ \E fits \in {~(\/ StartCoord.X + Size.X > GridSize.X
                       \/ StartCoord.Y + Size.Y > GridSize.Y)} :
          /\ GridState' = IF fits
                          THEN MarkCellsOccupied(GridState, GridSize, StartCoord,
                                                 Size, ECT_Empty)
                          ELSE GridState
          /\ last' = AreaCall("ClearArea", fits, StartCoord, Size, ECT_Empty,
                              GridState')
    /\ UNCHANGED <<envVars, topologyVars, scanVars, bIsInitialized, GridSize, FloorTargetCellType, floorVars,
                   wallVars, ceilingVars, cornerVars, doorVars, chunkVars, actorVars, fault>>

\* A call of the public TryPlaceMesh.
PlaceMesh(StartCoord, Size, MeshInfo, Rotation) ==
    /\ ~fault
    /\ \E st \in {TryPlaceMesh(Working(PlacedFloorMeshes), StartCoord, Size,
                                MeshInfo, Rotation)} :
          /\ GridState' = st.grid
          /\ PlacedFloorMeshes' = st.placed
          /\ last' = AreaCall("TryPlaceMesh", st.ok, StartCoord, Size,
                              ECT_FloorMesh, st.grid)
    /\ UNCHANGED <<envVars, topologyVars, scanVars, bIsInitialized, GridSize, FloorTargetCellType, TilesPlaced,
                   wallVars, ceilingVars, cornerVars, doorVars, chunkVars, actorVars, fault>>

\* The smallest grid the chunky spawner accepts.
MinChunkyGrid == 4

AreaGridSize ==
    IF Strategy = "Uniform" THEN Pt(SmallGrid, SmallGrid + 1)
    ELSE Pt(MinChunkyGrid, MinChunkyGrid)

\* Start coordinates from one cell before the grid to one cell after it.
AreaStarts == {Pt(x, y) : x \in -1..GridSize.X, y \in -1..GridSize.Y}

AreaSizes == {Pt(w, h) : w \in 1..MaxAreaSize, h \in 1..MaxAreaSize}

\* The cells a rectangle operation has changed since CreateGrid.
TouchedCells ==
    {i \in 1..Len(GridState) : GridState[i] \notin {FloorTargetCellType, ECT_Void}}

InitArea ==
    /\ Strategy \in {"Uniform", "Chunky"}
    /\ RoomData = DefaultRoomData
    /\ ChunkParams = NoProtrusions
    /\ DoorDataAsset = DefaultDoorStyle
    /\ GeneratorConstructed
    /\ ActorUnused

NextArea ==
    \/ InitializeIfNeeded(AreaGridSize)
    \/ UniformCreateGrid
    \/ \E seed \in StreamSeeds : ChunkyCreateGrid(seed)
    \/ /\ Cardinality(TouchedCells) <= MaxTouched
       /\ PlacedFloorMeshes = <<>>
       /\ \E start \in AreaStarts : \E size \in AreaSizes :
             \/ \E type \in {ECT_FloorMesh, ECT_Reserved} : MarkArea(start, size, type)
             \/ ClearArea(start, size)
             \/ PlaceMesh(start, size, Tile1x1, 0)
    \/ ClearPlacedFloorMeshes

SpecArea == InitArea /\ [][NextArea]_vars

\* ------------------------------------------------------------------
\* URoomGenerationHelpers::IsAreaAvailable as a function of its arguments
\* ------------------------------------------------------------------
\* A static call of URoomGenerationHelpers::IsAreaAvailable on the grid.
HelperIsAreaAvailable(StartCoord, Size, RequiredType) ==
    /\ ~fault
    /\ \E scan \in {CheckArea(GridState, GridSize, StartCoord, Size, RequiredType)} :
          last' = [Call("IsAreaAvailable", scan.ok, StartCoord, Size, RequiredType)
                      EXCEPT !.reads = scan.reads]
    /\ UNCHANGED <<envVars, topologyVars, scanVars, gridVars, floorVars, wallVars, ceilingVars, cornerVars, doorVars,
                   chunkVars, actorVars, fault>>

AvailGridSize == Pt(SmallGrid, SmallGrid + 1)

\* The grids the helper is called on: grids as CreateGrid and SetCellState
\* leave them, with at most MaxTouched + 1 floor-mesh cells among empty ones.
AvailGrids ==
    {g \in [1..(AvailGridSize.X * AvailGridSize.Y) -> {ECT_Empty, ECT_FloorMesh}] :
        GetCellCountByType(g, ECT_FloorMesh) <= MaxTouched + 1}

InitAvail ==
    /\ Strategy = "Uniform"
    /\ RoomData = DefaultRoomData
    /\ ChunkParams = NoProtrusions
    /\ DoorDataAsset = DefaultDoorStyle
    /\ bIsInitialized = TRUE
    /\ GridSize = AvailGridSize
    /\ GridState \in AvailGrids
    /\ FloorTargetCellType = ECT_Empty
    /\ PlacedFloorMeshes = <<>>
    /\ TilesPlaced = ZeroTiles
    /\ PlacedWallMeshes = <<>>
    /\ PlacedBaseWallSegments = <<>>
    /\ PlacedCeilingTiles = <<>>
    /\ PlacedCornerMeshes = <<>>
    /\ CornerOccupiedCells = {}
    /\ PlacedDoorwayMeshes = <<>>
    /\ CachedDoorwayLayouts = <<>>
    /\ ChunkGridSize = Pt(0, 0)
    /\ BaseRoomSizeChunks = Pt(0, 0)
    /\ BaseRoomSize = Pt(0, 0)
    /\ CellMetadata = {}
    /\ bTopologyAnalyzed = FALSE
    /\ wallScan = Idle
    /\ fault = FALSE
    /\ last = NoArgCall("CreateGrid", TRUE)
    /\ ActorUnused

\* One call per grid: the helper changes no state.
NextAvail ==
    /\ last.op # "IsAreaAvailable"
    /\ \E start \in AreaStarts : \E size \in AreaSizes :
          \E type \in {ECT_Empty, ECT_FloorMesh} :
             HelperIsAreaAvailable(start, size, type)

SpecAvail == InitAvail /\ [][NextAvail]_vars

\* ------------------------------------------------------------------
\* Doorways: layout cache and derived placements
\* ------------------------------------------------------------------
CELL_SIZE == 100

\* The virtual boundary cells of an edge, in order; they lie outside the grid.
GetEdgeCellIndices(Edge, gridSize) ==
    CASE Edge = "North" -> [i \in 1..gridSize.Y |-> Pt(gridSize.X, i - 1)]
      [] Edge = "South" -> [i \in 1..gridSize.Y |-> Pt(-1, i - 1)]
      [] Edge = "East"  -> [i \in 1..gridSize.X |-> Pt(i - 1, gridSize.Y)]
      [] Edge = "West"  -> [i \in 1..gridSize.X |-> Pt(i - 1, -1)]
      [] OTHER -> <<>>

GetWallRotationForEdge(Edge) ==
    CASE Edge = "North" -> 180
      [] Edge = "South" -> 0
      [] Edge = "East"  -> 270
      [] Edge = "West"  -> 90
      [] OTHER -> 0

\* The centre of the doorway span on its edge; (StartCell + Width / 2.0) * CellSize.
CalculateDoorwayPosition(Edge, StartCell, WidthInCells, gridSize) ==
    LET DoorwayCenter == (2 * StartCell + WidthInCells) * (CELL_SIZE \div 2)
    IN  CASE Edge = "North" -> Pt(gridSize.X * CELL_SIZE, DoorwayCenter)
          [] Edge = "South" -> Pt(0, DoorwayCenter)
          [] Edge = "East"  -> Pt(DoorwayCenter, gridSize.Y * CELL_SIZE)
          [] Edge = "West"  -> Pt(DoorwayCenter, 0)
          [] OTHER -> Pt(0, 0)

\* UDoorData::GetTotalDoorwayWidth and GetOffsetsForEdge read the asset.
GetTotalDoorwayWidth(asset) == asset.TotalDoorwayWidth

GetOffsetsForEdge(asset, Edge) == asset.EdgeOffsets[Edge]

\* The placement derived from a layout with the style's current offsets.
CalculateDoorwayTransforms(Layout, gridSize, asset) ==
    LET BasePosition == CalculateDoorwayPosition(Layout.Edge, Layout.StartCell,
                                                 Layout.WidthInCells, gridSize)
        Off == IF Layout.bIsStandardDoorway
               THEN GetOffsetsForEdge(asset, Layout.Edge)
               ELSE Layout.ManualOffsets
        Rotation == GetWallRotationForEdge(Layout.Edge) + asset.FrameRotationOffset
    IN  [Edge |-> Layout.Edge,
         StartCell |-> Layout.StartCell,
         WidthInCells |-> Layout.WidthInCells,
         DoorData |-> Layout.DoorData,
         bIsStandardDoorway |-> Layout.bIsStandardDoorway,
         FrameTransform |->
            [Rotation |-> Rotation,
             Location |-> Pt(BasePosition.X + Off.FramePositionOffset.X,
                             BasePosition.Y + Off.FramePositionOffset.Y)],
         ActorTransform |->
            [Rotation |-> Rotation,
             Location |-> Pt(BasePosition.X + Off.ActorPositionOffset.X,
                             BasePosition.Y + Off.ActorPositionOffset.Y)]]

\* The cells a placed doorway spans: the edge cells StartCell .. StartCell +
\* WidthInCells - 1 that exist on the edge.
DoorwaySpanCells(Doorway, gridSize) ==
    LET EdgeCells == GetEdgeCellIndices(Doorway.Edge, gridSize)
    IN  {EdgeCells[CellIndex + 1] :
            CellIndex \in {c \in Doorway.StartCell..(Doorway.StartCell + Doorway.WidthInCells - 1) :
                              c >= 0 /\ c < Len(EdgeCells)}}

IsCellPartOfDoorway(placed, gridSize, Cell) ==
    \E d \in 1..Len(placed) : Cell \in DoorwaySpanCells(placed[d], gridSize)

\* The cells IsCellPartOfDoorway reports, among the grid and its boundary ring.
DoorwayCells(placed, gridSize) ==
    {Cell \in {Pt(x, y) : x \in -1..gridSize.X, y \in -1..gridSize.Y} :
        IsCellPartOfDoorway(placed, gridSize, Cell)}

\* Doorway cells that lie inside the grid become ECT_Doorway.
MarkDoorwayCells(grid, placed, gridSize) ==
    [i \in 1..Len(grid) |->
        IF \E d \in 1..Len(placed) : \E Cell \in DoorwaySpanCells(placed[d], gridSize) :
              /\ IsValidGridCoordinate(Cell, gridSize)
              /\ CoordinateToIndex(Cell, gridSize.X) + 1 = i
        THEN ECT_Doorway ELSE grid[i]]

\* Phase 1: the forced doorways that have door data and fit on their edge.
RECURSIVE ForcedDoorwayLayouts(_, _, _, _, _)
ForcedDoorwayLayouts(layouts, roomData, gridSize, asset, n) ==
    IF n > Len(roomData.ForcedDoorways) THEN layouts
    ELSE LET ForcedDoor == roomData.ForcedDoorways[n]
             DoorData == IF ForcedDoor.DoorData # "None" THEN ForcedDoor.DoorData
                         ELSE roomData.DefaultDoorData
             DoorWidth == GetTotalDoorwayWidth(asset)
             EdgeCells == GetEdgeCellIndices(ForcedDoor.WallEdge, gridSize)
         IN  IF DoorData = "None"
             THEN ForcedDoorwayLayouts(layouts, roomData, gridSize, asset, n + 1)
             ELSE IF ForcedDoor.StartCell < 0
                     \/ ForcedDoor.StartCell + DoorWidth > Len(EdgeCells)
             THEN ForcedDoorwayLayouts(layouts, roomData, gridSize, asset, n + 1)
             ELSE ForcedDoorwayLayouts(
                      Append(layouts,
                             [Edge |-> ForcedDoor.WallEdge,
                              StartCell |-> ForcedDoor.StartCell,
                              WidthInCells |-> DoorWidth,
                              DoorData |-> DoorData,
                              bIsStandardDoorway |-> FALSE,
                              ManualOffsets |-> ForcedDoor.DoorPositionOffsets]),
                      roomData, gridSize, asset, n + 1)

\* The edges of the standard doorways; Shuffled is the outcome of the shuffle
\* of the four edges, whose first element is also the single random edge.
EdgesToUse(roomData, Shuffled) ==
    IF roomData.bSetStandardDoorwayEdge THEN <<roomData.StandardDoorwayEdge>>
    ELSE IF roomData.bMultipleDoorways
    THEN SubSeq(Shuffled, 1, Min(Clamp(roomData.NumAutomaticDoorways, 2, 4),
                                 Len(Shuffled)))
    ELSE <<Shuffled[1]>>

\* Phase 2: one centred standard doorway per chosen edge, unless it overlaps
\* a layout already on that edge.
RECURSIVE StandardDoorwayLayouts(_, _, _, _, _)
StandardDoorwayLayouts(layouts, roomData, gridSize, Edges, n) ==
    IF n > Len(Edges) THEN layouts
    ELSE LET ChosenEdge == Edges[n]
             EdgeLength == Len(GetEdgeCellIndices(ChosenEdge, gridSize))
             StartCell == Clamp(TruncDiv(EdgeLength - roomData.StandardDoorwayWidth, 2),
                                0, EdgeLength - roomData.StandardDoorwayWidth)
             NewEnd == StartCell + roomData.StandardDoorwayWidth
             bOverlaps ==
                \E k \in 1..Len(layouts) :
                   /\ layouts[k].Edge = ChosenEdge
                   /\ StartCell < layouts[k].StartCell + layouts[k].WidthInCells
                   /\ layouts[k].StartCell < NewEnd
         IN  IF bOverlaps
             THEN StandardDoorwayLayouts(layouts, roomData, gridSize, Edges, n + 1)
             ELSE StandardDoorwayLayouts(
                      Append(layouts,
                             [Edge |-> ChosenEdge,
                              StartCell |-> StartCell,
                              WidthInCells |-> roomData.StandardDoorwayWidth,
                              DoorData |-> roomData.DefaultDoorData,
                              bIsStandardDoorway |-> TRUE,
                              ManualOffsets |-> ZeroOffsets]),
                      roomData, gridSize, Edges, n + 1)

\* The layouts computed when nothing is cached.
ComputeDoorwayLayouts(roomData, gridSize, asset, Shuffled) ==
    LET Manual == ForcedDoorwayLayouts(<<>>, roomData, gridSize, asset, 1)
    IN  IF roomData.bGenerateStandardDoorway /\ roomData.DefaultDoorData # "None"
        THEN StandardDoorwayLayouts(Manual, roomData, gridSize,
                                    EdgesToUse(roomData, Shuffled), 1)
        ELSE Manual

NeverCached(cache) == FALSE

HasCachedLayout(cache) == Len(cache) > 0

\* The layouts and placements an initialised generator has after
\* GenerateDoorways: the cached layouts if there are any, new ones otherwise.
DoorwayLayoutsAfter(cache, roomData, gridSize, asset, Shuffled) ==
    IF HasCachedLayout(cache) THEN cache
    ELSE ComputeDoorwayLayouts(roomData, gridSize, asset, Shuffled)

DoorwayPlacements(layouts, gridSize, asset) ==
    [i \in 1..Len(layouts) |-> CalculateDoorwayTransforms(layouts[i], gridSize, asset)]

\* The record kept of a doorway call: the cache, the placements and the
\* doorway cells before it.
DoorCall(op, ret) ==
    [NoArgCall(op, ret) EXCEPT
        !.preCache = CachedDoorwayLayouts,
        !.preDoors = PlacedDoorwayMeshes,
        !.preCells = DoorwayCells(PlacedDoorwayMeshes, GridSize)]

\* URoomGenerator::GenerateDoorways; UUniformRoomGenerator overrides it with
\* the same body.  The room data asset is set.
GenerateDoorways(Shuffled) ==
    /\ ~fault
    /\ Strategy = "Uniform"
    /\ IF ~bIsInitialized
       THEN /\ last' = DoorCall("GenerateDoorways", FALSE)
            /\ UNCHANGED <<GridState, doorVars>>
       ELSE \E layouts \in {DoorwayLayoutsAfter(CachedDoorwayLayouts, RoomData, GridSize,
                                                DoorDataAsset, Shuffled)} :
            \E placed \in {DoorwayPlacements(layouts, GridSize, DoorDataAsset)} :
               /\ CachedDoorwayLayouts' = layouts
               /\ PlacedDoorwayMeshes' = placed
               /\ GridState' = MarkDoorwayCells(GridState, placed, GridSize)
               /\ last' = DoorCall("GenerateDoorways", TRUE)
    /\ UNCHANGED <<envVars, topologyVars, scanVars, bIsInitialized, GridSize, FloorTargetCellType, floorVars,
                   wallVars, ceilingVars, cornerVars, chunkVars, actorVars, fault>>

ClearPlacedDoorways ==
    /\ ~fault
    /\ PlacedDoorwayMeshes' = <<>>
    /\ CachedDoorwayLayouts' = <<>>
    /\ last' = DoorCall("ClearPlacedDoorways", TRUE)
    /\ UNCHANGED <<envVars, topologyVars, scanVars, gridVars, floorVars, wallVars, ceilingVars, cornerVars, chunkVars,
                   actorVars, fault>>

\* UDoorData is edited: the designer saves other offsets for an edge.
EditDoorOffsets(Edge, NewOffsets) ==
    /\ ~fault
    /\ DoorDataAsset.EdgeOffsets[Edge] # NewOffsets
    /\ DoorDataAsset' = [DoorDataAsset EXCEPT !.EdgeOffsets[Edge] = NewOffsets]
    /\ UNCHANGED <<Strategy, RoomData, ChunkParams, topologyVars, scanVars, gridVars, floorVars, wallVars, ceilingVars,
                   cornerVars, doorVars, chunkVars, actorVars, fault, last>>

\* ------------------------------------------------------------------
\* ARoomActor: the editor functions around the doorway cache
\* ------------------------------------------------------------------
MinRoomGridSize == 4

\* EnsureGeneratorReady fails on a room grid below 4x4; the actor's room data is set.
GeneratorCanBeReady(RoomGridSize) ==
    RoomGridSize.X >= MinRoomGridSize /\ RoomGridSize.Y >= MinRoomGridSize

\* The grid size and the grid the generator has after EnsureGeneratorReady:
\* Initialize and CreateGrid run only on a generator that is not initialised.
ReadyGridSize(RoomGridSize) == IF bIsInitialized THEN GridSize ELSE RoomGridSize

ReadyGridState(RoomGridSize) ==
    IF bIsInitialized THEN GridState
    ELSE [i \in 1..(RoomGridSize.X * RoomGridSize.Y) |-> ECT_Empty]

EnsureGeneratorReady(RoomGridSize) ==
    /\ RoomGenerator' = "Valid"
    /\ bIsInitialized' = TRUE
    /\ GridSize' = ReadyGridSize(RoomGridSize)
    /\ TilesPlaced' = IF bIsInitialized THEN TilesPlaced ELSE ZeroTiles

GenerateRoomGrid(RoomGridSize) ==
    /\ ~fault
    /\ Strategy = "Uniform"
    /\ IF ~GeneratorCanBeReady(RoomGridSize)
       THEN /\ last' = DoorCall("GenerateRoomGrid", FALSE)
            /\ UNCHANGED <<bIsInitialized, GridSize, GridState, TilesPlaced, actorVars>>
       ELSE /\ EnsureGeneratorReady(RoomGridSize)
            /\ GridState' = ReadyGridState(RoomGridSize)
            /\ bIsGenerated' = TRUE
            /\ last' = DoorCall("GenerateRoomGrid", TRUE)
            /\ UNCHANGED SpawnedDoorwayActors
    /\ UNCHANGED <<envVars, topologyVars, scanVars, FloorTargetCellType, PlacedFloorMeshes, wallVars, ceilingVars, cornerVars,
                   doorVars, chunkVars, fault>>

\* GenerateDoorwayMeshes: the spawned doorway actors are destroyed, the
\* generator re-derives the placements, one actor is spawned per placement.
GenerateDoorwayMeshes(RoomGridSize, Shuffled) ==
    /\ ~fault
    /\ Strategy = "Uniform"
    /\ IF ~GeneratorCanBeReady(RoomGridSize)
       THEN /\ last' = DoorCall("GenerateDoorwayMeshes", FALSE)
            /\ UNCHANGED <<bIsInitialized, GridSize, GridState, TilesPlaced, doorVars,
                           actorVars>>
       ELSE \E size \in {ReadyGridSize(RoomGridSize)} :
            \E layouts \in {DoorwayLayoutsAfter(CachedDoorwayLayouts, RoomData, size,
                                                DoorDataAsset, Shuffled)} :
            \E placed \in {DoorwayPlacements(layouts, size, DoorDataAsset)} :
               /\ EnsureGeneratorReady(RoomGridSize)
               /\ CachedDoorwayLayouts' = layouts
               /\ PlacedDoorwayMeshes' = placed
               /\ GridState' = MarkDoorwayCells(ReadyGridState(RoomGridSize), placed, size)
               /\ SpawnedDoorwayActors' = Len(placed)
               /\ last' = DoorCall("GenerateDoorwayMeshes", TRUE)
               /\ UNCHANGED bIsGenerated
    /\ UNCHANGED <<envVars, topologyVars, scanVars, FloorTargetCellType, PlacedFloorMeshes, wallVars, ceilingVars, cornerVars,
                   chunkVars, fault>>

ClearDoorwayMeshes ==
    /\ ~fault
    /\ SpawnedDoorwayActors' = 0
    /\ last' = DoorCall("ClearDoorwayMeshes", TRUE)
    /\ UNCHANGED <<envVars, topologyVars, scanVars, gridVars, floorVars, wallVars, ceilingVars, cornerVars, doorVars,
                   chunkVars, RoomGenerator, bIsGenerated, fault>>

\* ClearRoomGrid returns at once unless the actor has a generator and
\* GenerateRoomGrid has set bIsGenerated.
ClearRoomGrid ==
    /\ ~fault
    /\ IF RoomGenerator = "None" \/ ~bIsGenerated
       THEN /\ last' = DoorCall("ClearRoomGrid", TRUE)
            /\ UNCHANGED <<gridVars, floorVars, wallVars, ceilingVars, cornerVars, doorVars,
                           actorVars>>
       ELSE /\ SpawnedDoorwayActors' = 0
            /\ CachedDoorwayLayouts' = <<>>
            /\ GridState' = <<>>
            /\ PlacedFloorMeshes' = <<>>
            /\ PlacedWallMeshes' = <<>>
            /\ PlacedBaseWallSegments' = <<>>
            /\ PlacedCeilingTiles' = <<>>
            /\ PlacedDoorwayMeshes' = <<>>
            /\ PlacedCornerMeshes' = <<>>
            /\ TilesPlaced' = ZeroTiles
            /\ bIsInitialized' = FALSE
            /\ bIsGenerated' = FALSE
            /\ last' = DoorCall("ClearRoomGrid", TRUE)
            /\ UNCHANGED <<GridSize, FloorTargetCellType, CornerOccupiedCells,
                           RoomGenerator>>
    /\ UNCHANGED <<envVars, topologyVars, scanVars, chunkVars, fault>>

\* ------------------------------------------------------------------
\* The doorway life cycle of a room actor and its generator
\* ------------------------------------------------------------------
Edges == {"North", "South", "East", "West"}

\* Outcomes of the shuffle of the four edges: every edge comes first, second,
\* third and last in one of them.
Shuffles ==
    {<<"North", "South", "East", "West">>, <<"East", "North", "West", "South">>,
     <<"South", "West", "North", "East">>, <<"West", "East", "South", "North">>}

\* The edge whose offsets the designer edits.
EditedEdges == {"North"}

OffsetChoices == {ZeroOffsets, Offsets(Pt(25, 0), Pt(0, 50))}

ForcedDoor(edge, start, doorData, offsets) ==
    [WallEdge |-> edge, StartCell |-> start, DoorData |-> doorData,
     DoorPositionOffsets |-> offsets]

DoorRoomData(forced, default, standard, setEdge, edge, multiple, num, width) ==
    [DefaultRoomData EXCEPT
        !.ForcedDoorways = forced,
        !.DefaultDoorData = default,
        !.bGenerateStandardDoorway = standard,
        !.bSetStandardDoorwayEdge = setEdge,
        !.StandardDoorwayEdge = edge,
        !.bMultipleDoorways = multiple,
        !.NumAutomaticDoorways = num,
        !.StandardDoorwayWidth = width]

\* Room data: one random standard doorway; a forced doorway that the standard
\* doorway of its edge overlaps; two random standard doorways; no door data
\* at all; a forced doorway beyond its edge and a standard doorway wider than
\* its edge.
DoorRoomDataChoices ==
    {DoorRoomData(<<>>, "DA_Door", TRUE, FALSE, "North", FALSE, 2, 2),
     DoorRoomData(<<ForcedDoor("North", 1, "None", Offsets(Pt(0, 10), Pt(0, 0)))>>,
                  "DA_Door", TRUE, TRUE, "North", FALSE, 2, 2),
     DoorRoomData(<<>>, "DA_Door", TRUE, FALSE, "North", TRUE, 1, 1),
     DoorRoomData(<<ForcedDoor("West", 0, "None", ZeroOffsets)>>,
                  "None", TRUE, FALSE, "North", FALSE, 2, 2),
     DoorRoomData(<<ForcedDoor("East", 3, "DA_Door", ZeroOffsets)>>,
                  "DA_Door", TRUE, TRUE, "South", FALSE, 2, 5)}

DoorGridSizes ==
    {Pt(MinRoomGridSize, MinRoomGridSize), Pt(MinRoomGridSize, MinRoomGridSize + 1)}

\* The actor's RoomGridSize property.
ActorGridSizes ==
    {Pt(MinRoomGridSize, MinRoomGridSize), Pt(MinRoomGridSize - 1, MinRoomGridSize)}

\* The actor after its constructor: no generator object yet.
InitDoor ==
    /\ Strategy = "Uniform"
    /\ RoomData \in DoorRoomDataChoices
    /\ ChunkParams = NoProtrusions
    /\ DoorDataAsset = DefaultDoorStyle
    /\ GeneratorConstructed
    /\ RoomGenerator = "None"
    /\ bIsGenerated = FALSE
    /\ SpawnedDoorwayActors = 0

\* The actor's editor functions, the edits of the door style, and the
\* generator's own calls in life-cycle order once the object exists.
NextDoor ==
    \/ \E size \in ActorGridSizes : GenerateRoomGrid(size)
    \/ \E size \in ActorGridSizes : \E s \in Shuffles : GenerateDoorwayMeshes(size, s)
    \/ ClearDoorwayMeshes
    \/ ClearRoomGrid
    \/ \E e \in EditedEdges : \E o \in OffsetChoices : EditDoorOffsets(e, o)
    \/ /\ RoomGenerator = "Valid"
       /\ \/ \E size \in DoorGridSizes : InitializeIfNeeded(size)
          \/ UniformCreateGrid
          \/ \E s \in Shuffles : GenerateDoorways(s)
          \/ ClearPlacedDoorways
          \/ ClearGrid

SpecDoor == InitDoor /\ [][NextDoor]_vars

\* ------------------------------------------------------------------
\* The phases of a uniform generator and their failures
\* ------------------------------------------------------------------
\* URoomGenerator::GenerateCorners and its copy in UUniformRoomGenerator: the
\* four corners of the rectangle, SW, SE, NE, NW.  bCornerMeshLoads is the
\* outcome of DefaultCornerMesh.LoadSynchronous(); Cell is the grid corner.
UniformGenerateCorners(bCornerMeshLoads) ==
    /\ ~fault
    /\ Strategy = "Uniform"
    /\ IF ~bIsInitialized \/ Len(RoomData.WallStyleData) = 0
       THEN /\ last' = NoArgCall("GenerateCorners", FALSE)
            /\ UNCHANGED PlacedCornerMeshes
       ELSE IF ~RoomData.WallStyleData[1].DefaultCornerMesh
       THEN /\ PlacedCornerMeshes' = <<>>
            /\ last' = NoArgCall("GenerateCorners", TRUE)
       ELSE IF ~bCornerMeshLoads
       THEN /\ PlacedCornerMeshes' = <<>>
            /\ last' = NoArgCall("GenerateCorners", FALSE)
       ELSE /\ PlacedCornerMeshes' =
                 <<[Corner |-> "SouthWest", Cell |-> Pt(0, 0)],
                   [Corner |-> "SouthEast", Cell |-> Pt(0, GridSize.Y)],
                   [Corner |-> "NorthEast", Cell |-> Pt(GridSize.X, GridSize.Y)],
                   [Corner |-> "NorthWest", Cell |-> Pt(GridSize.X, 0)]>>
            /\ last' = NoArgCall("GenerateCorners", TRUE)
    /\ UNCHANGED <<envVars, topologyVars, scanVars, gridVars, floorVars, wallVars, ceilingVars, CornerOccupiedCells, doorVars,
                   chunkVars, actorVars, fault>>

\* The room data asset is edited between calls.
EditRoomData(NewRoomData) ==
    /\ ~fault
    /\ RoomData # NewRoomData
    /\ RoomData' = NewRoomData
    /\ last' = NoArgCall("EditRoomData", TRUE)
    /\ UNCHANGED <<Strategy, ChunkParams, DoorDataAsset, topologyVars, scanVars, gridVars, floorVars, wallVars,
                   ceilingVars, cornerVars, doorVars, chunkVars, actorVars, fault>>

\* Room data: complete; without wall style; with an empty floor pool; with a
\* wall style that names no corner mesh.
PhaseRoomDataChoices ==
    {DefaultRoomData,
     [DefaultRoomData EXCEPT !.WallStyleData = <<>>],
     [DefaultRoomData EXCEPT !.FloorStyleData = <<[FloorTilePool |-> <<>>]>>],
     [DefaultRoomData EXCEPT !.WallStyleData[1].DefaultCornerMesh = FALSE]}

InitPhases ==
    /\ Strategy = "Uniform"
    /\ RoomData \in PhaseRoomDataChoices
    /\ ChunkParams = NoProtrusions
    /\ DoorDataAsset = DefaultDoorStyle
    /\ GeneratorConstructed
    /\ ActorUnused

NextPhases ==
    \/ \E size \in GridSizes : InitializeIfNeeded(size)
    \/ UniformCreateGrid
    \/ \E tape \in Tapes : UniformGenerateFloor(tape)
    \/ \E bCornerMeshLoads \in BOOLEAN : UniformGenerateCorners(bCornerMeshLoads)
    \/ \E s \in Shuffles : GenerateDoorways(s)
    \/ \E rd \in PhaseRoomDataChoices : EditRoomData(rd)
    \/ ClearGrid

SpecPhases == InitPhases /\ [][NextPhases]_vars

\* ------------------------------------------------------------------
\* GetRotatedFootprint as a function of its arguments
\* ------------------------------------------------------------------
MaxFootprint == 3

MaxTurns == 8

\* The tracked base segments beyond which GenerateWalls is not called again.
MaxWallSegments == 32

\* Both implementations are called with the same arguments.
RotateFootprint(OriginalFootprint, Rotation) ==
    /\ ~fault
    /\ last' = [Call("GetRotatedFootprint", TRUE, Pt(0, 0), OriginalFootprint, ECT_Empty)
                   EXCEPT !.Rotation = Rotation,
                          !.Footprint = GetRotatedFootprint(OriginalFootprint, Rotation),
                          !.HelperFootprint =
                              HelperGetRotatedFootprint(OriginalFootprint, Rotation)]
    /\ UNCHANGED <<envVars, topologyVars, scanVars, gridVars, floorVars, wallVars, ceilingVars, cornerVars, doorVars,
                   chunkVars, actorVars, fault>>

Footprints == {Pt(w, h) : w \in 1..MaxFootprint, h \in 1..MaxFootprint}

\* The multiples of 90 degrees, negative ones and ones of 360 and more included.
QuarterTurns == {90 * k : k \in (-MaxTurns)..MaxTurns}

InitRotate ==
    /\ Strategy = "Uniform"
    /\ RoomData = DefaultRoomData
    /\ ChunkParams = NoProtrusions
    /\ DoorDataAsset = DefaultDoorStyle
    /\ GeneratorConstructed
    /\ ActorUnused

\* One call per behaviour: the function changes no state.
NextRotate ==
    /\ last.op # "GetRotatedFootprint"
    /\ \E fp \in Footprints : \E r \in QuarterTurns : RotateFootprint(fp, r)

SpecRotate == InitRotate /\ [][NextRotate]_vars

\* ------------------------------------------------------------------
\* URoomGenerator: ceiling generation
\* ------------------------------------------------------------------
\* The working state of GenerateCeiling: the local array CeilingOccupied, the
\* records appended to PlacedCeilingTiles and the number of draws made.
CeilingWorking ==
    [occ |-> [i \in 1..(GridSize.X * GridSize.Y) |-> FALSE], placed |-> <<>>, k |-> 0]

\* The lambda IsCellOccupied: a cell outside the grid counts as occupied.
CeilingIsCellOccupied(cst, X, Y) ==
    IF X < 0 \/ X >= GridSize.X \/ Y < 0 \/ Y >= GridSize.Y
    THEN TRUE
    ELSE cst.occ[Y * GridSize.X + X + 1]

\* The lambda IsAreaAvailable.
CeilingIsAreaAvailable(cst, StartX, StartY, Size) ==
    \A dy \in 0..(Size.Y - 1) : \A dx \in 0..(Size.X - 1) :
        ~CeilingIsCellOccupied(cst, StartX + dx, StartY + dy)

\* The lambda MarkCellsOccupied: the cells of the rectangle inside the grid.
CeilingMarkCellsOccupied(cst, StartX, StartY, Size) ==
    [cst EXCEPT !.occ =
        [i \in 1..Len(cst.occ) |->
            LET X == (i - 1) % GridSize.X
                Y == (i - 1) \div GridSize.X
            IN  \/ cst.occ[i]
                \/ /\ StartX <= X /\ X < StartX + Size.X
                   /\ StartY <= Y /\ Y < StartY + Size.Y]]

\* A record is appended to PlacedCeilingTiles and its cells are marked.
PlaceCeilingTile(cst, X, Y, Size, MeshInfo) ==
    CeilingMarkCellsOccupied(
        [cst EXCEPT !.placed = Append(@, [GridCoordinate |-> Pt(X, Y),
                                          TileSize |-> Size,
                                          MeshInfo |-> MeshInfo])],
        X, Y, Size)

\* One iteration of the loop of ExecuteForcedCeilingPlacements.
ForcedCeilingPlacement(cst, ForcedTile) ==
    LET TileInfo == ForcedTile.TileInfo
        Coord == ForcedTile.GridCoordinate
        OriginalFootprint == CalculateFootprint(TileInfo)
        RotationsToTry == IF Len(ForcedTile.AllowedRotations) > 0
                          THEN ForcedTile.AllowedRotations
                          ELSE IF Len(TileInfo.AllowedRotations) > 0
                          THEN TileInfo.AllowedRotations
                          ELSE <<0>>
        Fits(i) ==
            LET RotatedFootprint == GetRotatedFootprint(OriginalFootprint, RotationsToTry[i])
            IN  /\ Coord.X + RotatedFootprint.X <= GridSize.X
                /\ Coord.Y + RotatedFootprint.Y <= GridSize.Y
                /\ Coord.X >= 0 /\ Coord.Y >= 0
                /\ CeilingIsAreaAvailable(cst, Coord.X, Coord.Y, RotatedFootprint)
        Fitting == {i \in 1..Len(RotationsToTry) : Fits(i)}
        first == IF Fitting = {} THEN 0 ELSE CHOOSE i \in Fitting : \A j \in Fitting : i <= j
    IN  IF TileInfo.MeshAsset = "None" THEN cst
        ELSE IF first = 0 THEN cst
        ELSE PlaceCeilingTile(cst, Coord.X, Coord.Y,
                              GetRotatedFootprint(OriginalFootprint, RotationsToTry[first]),
                              TileInfo)

RECURSIVE ExecuteForcedCeilingPlacements(_, _)
ExecuteForcedCeilingPlacements(cst, n) ==
    IF n > Len(RoomData.ForcedCeilingPlacements) THEN cst
    ELSE Bind(ForcedCeilingPlacement(cst, RoomData.ForcedCeilingPlacements[n]),
              LAMBDA next : ExecuteForcedCeilingPlacements(next, n + 1))

\* The body of the scan of FillCeilingWithTileSize and FillRemainingCeilingGaps
\* at one cell: a tile and a rotation are drawn, the record has TargetSize.
CeilingPlaceAt(cst, X, Y, TargetSize, Matching, tape) ==
    IF ~CeilingIsAreaAvailable(cst, X, Y, TargetSize) THEN cst
    ELSE LET SelectedTile == SelectWeightedRandom(Matching, Draw(tape, cst.k))
             Valid == ValidRotations(SelectedTile, TargetSize)
             drawn == [cst EXCEPT !.k = @ + (IF Len(Valid) > 0 THEN 2 ELSE 1)]
         IN  PlaceCeilingTile(drawn, X, Y, TargetSize, SelectedTile)

RECURSIVE CeilingScanRow(_, _, _, _, _, _)
CeilingScanRow(cst, X, Y, TargetSize, Matching, tape) ==
    IF X >= GridSize.X THEN cst
    ELSE Bind(CeilingPlaceAt(cst, X, Y, TargetSize, Matching, tape),
              LAMBDA next : CeilingScanRow(next, X + 1, Y, TargetSize, Matching, tape))

RECURSIVE CeilingScanGrid(_, _, _, _, _)
CeilingScanGrid(cst, Y, TargetSize, Matching, tape) ==
    IF Y >= GridSize.Y THEN cst
    ELSE Bind(CeilingScanRow(cst, 0, Y, TargetSize, Matching, tape),
              LAMBDA next : CeilingScanGrid(next, Y + 1, TargetSize, Matching, tape))

FillCeilingWithTileSize(cst, TilePool, TargetSize, tape) ==
    LET Matching == MatchingTiles(TilePool, TargetSize)
    IN  IF Len(Matching) = 0 THEN cst
        ELSE CeilingScanGrid(cst, 0, TargetSize, Matching, tape)

RECURSIVE FillCeilingSizes(_, _, _, _, _)
FillCeilingSizes(cst, TilePool, Sizes, n, tape) ==
    IF n > Len(Sizes) THEN cst
    ELSE Bind(FillCeilingWithTileSize(cst, TilePool, Sizes[n], tape),
              LAMBDA next : FillCeilingSizes(next, TilePool, Sizes, n + 1, tape))

FillRemainingCeilingGaps(cst, TilePool, tape) ==
    IF Len(TilePool) = 0 THEN cst
    ELSE FillCeilingSizes(cst, TilePool, SizesToTry, 1, tape)

\* The last pass of GenerateCeiling at one cell: a tile of the whole pool is
\* drawn for a free cell; the record is appended when the tile names no mesh
\* and takes the tile's GridFootprint as its size.
FinalCeilingPlaceAt(cst, X, Y, TilePool, tape) ==
    IF CeilingIsCellOccupied(cst, X, Y) THEN cst
    ELSE LET SelectedTile == SelectWeightedRandom(TilePool, Draw(tape, cst.k))
             drawn == [cst EXCEPT !.k = @ + 1]
         IN  IF SelectedTile.MeshAsset = "None"
             THEN PlaceCeilingTile(drawn, X, Y, SelectedTile.GridFootprint, SelectedTile)
             ELSE drawn

RECURSIVE FinalCeilingScanRow(_, _, _, _, _)
FinalCeilingScanRow(cst, X, Y, TilePool, tape) ==
    IF X >= GridSize.X THEN cst
    ELSE Bind(FinalCeilingPlaceAt(cst, X, Y, TilePool, tape),
              LAMBDA next : FinalCeilingScanRow(next, X + 1, Y, TilePool, tape))

RECURSIVE FinalCeilingPass(_, _, _, _)
FinalCeilingPass(cst, Y, TilePool, tape) ==
    IF Y >= GridSize.Y THEN cst
    ELSE Bind(FinalCeilingScanRow(cst, 0, Y, TilePool, tape),
              LAMBDA next : FinalCeilingPass(next, Y + 1, TilePool, tape))

\* The passes of GenerateCeiling after its guards.
CeilingPhases(tape) ==
    LET TilePool == RoomData.CeilingStyleData[1].CeilingTilePool
        Forced(s) == ExecuteForcedCeilingPlacements(s, 1)
        Sized(s) == FillCeilingSizes(s, TilePool, GreedySizes, 1, tape)
        Gaps(s) == FillRemainingCeilingGaps(s, TilePool, tape)
        Final(s) == FinalCeilingPass(s, 0, TilePool, tape)
    IN  Bind(Bind(Bind(Bind(CeilingWorking, Forced), Sized), Gaps), Final)

\* The guards of GenerateCeiling: initialised, a ceiling style, a tile in its pool.
CanGenerateCeiling ==
    /\ bIsInitialized
    /\ Len(RoomData.CeilingStyleData) > 0
    /\ Len(RoomData.CeilingStyleData[1].CeilingTilePool) > 0

\* URoomGenerator::GenerateCeiling and its copy in UUniformRoomGenerator.
UniformGenerateCeiling(tape) ==
    /\ ~fault
    /\ Strategy = "Uniform"
    /\ IF ~CanGenerateCeiling
       THEN /\ last' = NoArgCall("GenerateCeiling", FALSE)
            /\ UNCHANGED PlacedCeilingTiles
       ELSE \E cst \in {CeilingPhases(tape)} :
                /\ PlacedCeilingTiles' = cst.placed
                /\ last' = NoArgCall("GenerateCeiling", TRUE)
    /\ UNCHANGED <<envVars, topologyVars, scanVars, gridVars, floorVars, wallVars, cornerVars, doorVars,
                   chunkVars, actorVars, fault>>

ClearPlacedCeiling ==
    /\ ~fault
    /\ PlacedCeilingTiles' = <<>>
    /\ last' = NoArgCall("ClearPlacedCeiling", TRUE)
    /\ UNCHANGED <<envVars, topologyVars, scanVars, gridVars, floorVars, wallVars, cornerVars, doorVars,
                   chunkVars, actorVars, fault>>

\* UChunkyRoomGenerator::GenerateDoorways and GenerateCeiling return false.
ChunkyGenerateDoorways ==
    /\ ~fault
    /\ Strategy = "Chunky"
    /\ last' = NoArgCall("GenerateDoorways", FALSE)
    /\ UNCHANGED <<envVars, topologyVars, scanVars, gridVars, floorVars, wallVars, ceilingVars, cornerVars,
                   doorVars, chunkVars, actorVars, fault>>

ChunkyGenerateCeiling ==
    /\ ~fault
    /\ Strategy = "Chunky"
    /\ last' = NoArgCall("GenerateCeiling", FALSE)
    /\ UNCHANGED <<envVars, topologyVars, scanVars, gridVars, floorVars, wallVars, ceilingVars, cornerVars,
                   doorVars, chunkVars, actorVars, fault>>

\* ------------------------------------------------------------------
\* The ceiling of a room under either strategy
\* ------------------------------------------------------------------
TileNoMesh2x2 == Tile(2, 2, <<0>>, 1, "None")

ForcedCeiling(x, y, tile, rotations) ==
    [GridCoordinate |-> Pt(x, y), TileInfo |-> tile, AllowedRotations |-> rotations]

CeilingData(pool, forced) == [CeilingTilePool |-> pool, Forced |-> forced]

\* The ceiling data: no tile; unit tiles; a forced 1x2 tile that fits turned;
\* large and unit tiles; 1x2 tiles alone; a 2x2 entry without a mesh, alone
\* and with a forced unit tile.
CeilingDataChoices ==
    {CeilingData(<<>>, <<>>),
     CeilingData(<<Tile1x1>>, <<>>),
     CeilingData(<<Tile1x1>>, <<ForcedCeiling(1, SmallGrid, Tile1x2, <<0, 90>>),
                                ForcedCeiling(0, 0, Tile2x2, <<>>)>>),
     CeilingData(<<Tile2x2, Tile1x1>>, <<>>),
     CeilingData(<<Tile1x2>>, <<>>),
     CeilingData(<<TileNoMesh2x2>>, <<>>),
     CeilingData(<<TileNoMesh2x2>>, <<ForcedCeiling(1, 1, Tile1x1, <<>>)>>)}

CeilingRoomData(cd) ==
    [DefaultRoomData EXCEPT
        !.CeilingStyleData = <<[CeilingTilePool |-> cd.CeilingTilePool]>>,
        !.ForcedCeilingPlacements = cd.Forced]

CeilingRoomDataChoices ==
    {CeilingRoomData(cd) : cd \in CeilingDataChoices}
        \cup {[DefaultRoomData EXCEPT !.CeilingStyleData = <<>>]}

CeilingGridSizes == {Pt(SmallGrid, SmallGrid + 1), Pt(SmallGrid + 1, SmallGrid + 1)}

InitCeiling ==
    /\ Strategy \in {"Uniform", "Chunky"}
    /\ RoomData \in CeilingRoomDataChoices
    /\ ChunkParams = NoProtrusions
    /\ DoorDataAsset = DefaultDoorStyle
    /\ GeneratorConstructed
    /\ ActorUnused

NextCeiling ==
    \/ \E size \in CeilingGridSizes : InitializeIfNeeded(size)
    \/ \E tape \in Tapes : UniformGenerateCeiling(tape)
    \/ ClearPlacedCeiling
    \/ ChunkyGenerateDoorways
    \/ ChunkyGenerateCeiling
    \/ \E s \in Shuffles : GenerateDoorways(s)
    \/ \E rd \in CeilingRoomDataChoices : EditRoomData(rd)
    \/ ClearGrid

SpecCeiling == InitCeiling /\ [][NextCeiling]_vars

\* ------------------------------------------------------------------
\* URoomGenerator: wall generation
\* ------------------------------------------------------------------
\* A transform: its location in the floor plane, its height and its yaw.
Transform(location, z, yaw) == [Location |-> location, Z |-> z, Yaw |-> yaw]

\* FTransform's default value, which a layer that was never derived keeps.
IdentityTransform == Transform(Pt(0, 0), 0, 0)

\* TSoftObjectPtr::LoadSynchronous gives a mesh unless the pointer is unset.
Loads(MeshAsset) == MeshAsset # "None"

\* URoomGenerationHelpers::CalculateWallPosition; HalfSpan is SpanLength * CellSize / 2.
CalculateWallPosition(Edge, StartCell, SpanLength, gridSize, style) ==
    LET HalfSpan == SpanLength * (CELL_SIZE \div 2)
    IN  CASE Edge = "North" -> Pt(gridSize.X * CELL_SIZE + style.NorthWallOffsetX,
                                  StartCell * CELL_SIZE + HalfSpan)
          [] Edge = "South" -> Pt(style.SouthWallOffsetX, StartCell * CELL_SIZE + HalfSpan)
          [] Edge = "East"  -> Pt(StartCell * CELL_SIZE + HalfSpan,
                                  gridSize.Y * CELL_SIZE + style.EastWallOffsetY)
          [] Edge = "West"  -> Pt(StartCell * CELL_SIZE + HalfSpan, style.WestWallOffsetY)
          [] OTHER -> Pt(0, 0)

\* URoomGenerationHelpers::CalculateSocketWorldTransform for a mesh without the
\* socket: the fallback offset (0, 0, WallHeight) on top of the parent.
CalculateSocketWorldTransform(ParentTransform, FallbackHeight) ==
    [ParentTransform EXCEPT !.Z = @ + FallbackHeight]

\* A tracked base segment.
WallSegment(Edge, StartCell, Module, gridSize, style) ==
    [Edge |-> Edge,
     StartCell |-> StartCell,
     SegmentLength |-> Module.Y_AxisFootprint,
     BaseTransform |->
        Transform(CalculateWallPosition(Edge, StartCell, Module.Y_AxisFootprint,
                                        gridSize, style),
                  0, GetWallRotationForEdge(Edge)),
     BaseMesh |-> Module.BaseMesh,
     WallModule |-> Module]

\* One iteration of the loop of ExecuteForcedWallPlacements.
ForcedWallPlacement(segs, ForcedWall, gridSize, style) ==
    LET Module == ForcedWall.WallModule
        EdgeCells == GetEdgeCellIndices(ForcedWall.Edge, gridSize)
        Footprint == Module.Y_AxisFootprint
    IN  IF ~Loads(Module.BaseMesh) THEN segs
        ELSE IF Len(EdgeCells) = 0 THEN segs
        ELSE IF ForcedWall.StartCell < 0 \/ ForcedWall.StartCell + Footprint > Len(EdgeCells)
        THEN segs
        ELSE Append(segs, WallSegment(ForcedWall.Edge, ForcedWall.StartCell, Module,
                                      gridSize, style))

RECURSIVE ExecuteForcedWallPlacements(_, _, _, _, _)
ExecuteForcedWallPlacements(segs, ForcedWallPlacements, n, gridSize, style) ==
    IF n > Len(ForcedWallPlacements) THEN segs
    ELSE ExecuteForcedWallPlacements(
             ForcedWallPlacement(segs, ForcedWallPlacements[n], gridSize, style),
             ForcedWallPlacements, n + 1, gridSize, style)

\* A range test that never reports a tracked segment.
NoCellRangeOccupied(segs, Edge, StartCell, Length) == FALSE

IsCellRangeOccupied(segs, Edge, StartCell, Length) ==
    \E s \in 1..Len(segs) :
        /\ segs[s].Edge = Edge
        /\ StartCell < segs[s].StartCell + segs[s].SegmentLength
        /\ segs[s].StartCell < StartCell + Length

\* FillWallEdge: a cell of the module's span on the edge is a doorway cell.
ModuleOverlapsDoorway(doors, gridSize, EdgeCells, CurrentCell, Module) ==
    \E i \in 0..(Module.Y_AxisFootprint - 1) :
        /\ CurrentCell + i < Len(EdgeCells)
        /\ IsCellPartOfDoorway(doors, gridSize, EdgeCells[CurrentCell + i + 1])

\* FillWallEdge: the modules that may be placed at CurrentCell.
ModuleFits(segs, doors, gridSize, Edge, EdgeCells, CurrentCell, Module) ==
    /\ ~ModuleOverlapsDoorway(doors, gridSize, EdgeCells, CurrentCell, Module)
    /\ Module.Y_AxisFootprint <= Len(EdgeCells) - CurrentCell
    /\ ~IsCellRangeOccupied(segs, Edge, CurrentCell, Module.Y_AxisFootprint)

\* A module that is never replaced by a larger one: the first that fits, or 0.
FirstModule(Modules, Fitting) ==
    IF Fitting = {} THEN 0 ELSE CHOOSE m \in Fitting : \A o \in Fitting : m <= o

\* FillWallEdge: the index of BestModule, the first of the largest modules
\* that fit, or 0.
BestModule(Modules, Fitting) ==
    IF Fitting = {} THEN 0
    ELSE CHOOSE m \in Fitting :
            /\ \A o \in Fitting : Modules[o].Y_AxisFootprint <= Modules[m].Y_AxisFootprint
            /\ \A o \in Fitting :
                  Modules[o].Y_AxisFootprint = Modules[m].Y_AxisFootprint => m <= o

\* One iteration of the loop of FillWallEdge: the segments and the scan offset
\* after it, and whether the loop was left by break.
FillWallEdgeStep(segs, doors, gridSize, style, Edge, CurrentCell) ==
    LET EdgeCells == GetEdgeCellIndices(Edge, gridSize)
        Modules == style.AvailableWallModules
        Fitting == {m \in 1..Len(Modules) :
                       ModuleFits(segs, doors, gridSize, Edge, EdgeCells, CurrentCell,
                                  Modules[m])}
        Best == BestModule(Modules, Fitting)
        Skip == [segs |-> segs, CurrentCell |-> CurrentCell + 1, bBreak |-> FALSE]
    IN  IF IsCellPartOfDoorway(doors, gridSize, EdgeCells[CurrentCell + 1]) THEN Skip
        ELSE IF IsCellRangeOccupied(segs, Edge, CurrentCell, 1) THEN Skip
        ELSE IF Best = 0 THEN Skip
        ELSE IF ~Loads(Modules[Best].BaseMesh)
        THEN [segs |-> segs, CurrentCell |-> CurrentCell, bBreak |-> TRUE]
        ELSE [segs |-> Append(segs, WallSegment(Edge, CurrentCell, Modules[Best],
                                                gridSize, style)),
              CurrentCell |-> CurrentCell + Modules[Best].Y_AxisFootprint,
              bBreak |-> FALSE]

\* The loop of FillWallEdge from CurrentCell on.
RECURSIVE FillWallEdgeFrom(_, _, _, _, _, _)
FillWallEdgeFrom(segs, doors, gridSize, style, Edge, CurrentCell) ==
    IF CurrentCell >= Len(GetEdgeCellIndices(Edge, gridSize)) THEN segs
    ELSE Bind(FillWallEdgeStep(segs, doors, gridSize, style, Edge, CurrentCell),
              LAMBDA next :
                  IF next.bBreak THEN next.segs
                  ELSE FillWallEdgeFrom(next.segs, doors, gridSize, style, Edge,
                                        next.CurrentCell))

FillWallEdge(segs, doors, gridSize, style, Edge) ==
    IF Len(GetEdgeCellIndices(Edge, gridSize)) = 0 THEN segs
    ELSE FillWallEdgeFrom(segs, doors, gridSize, style, Edge, 0)

\* The four calls of FillWallEdge in GenerateWalls.
FillWallEdges(segs, doors, gridSize, style) ==
    FillWallEdge(
        FillWallEdge(
            FillWallEdge(
                FillWallEdge(segs, doors, gridSize, style, "North"),
                doors, gridSize, style, "South"),
            doors, gridSize, style, "East"),
        doors, gridSize, style, "West")

\* SpawnMiddleWallLayers: the records of the segments whose module has a
\* middle-1 mesh, in the order of the segments.
RECURSIVE SpawnMiddleWallLayers(_, _, _, _)
SpawnMiddleWallLayers(walls, segs, n, FallbackHeight) ==
    IF n > Len(segs) THEN walls
    ELSE LET Segment == segs[n]
             Middle1WorldTransform ==
                 CalculateSocketWorldTransform(Segment.BaseTransform, FallbackHeight)
             PlacedWall ==
                 [Edge |-> Segment.Edge,
                  StartCell |-> Segment.StartCell,
                  SpanLength |-> Segment.SegmentLength,
                  WallModule |-> Segment.WallModule,
                  BottomTransform |-> Segment.BaseTransform,
                  Middle1Transform |-> Middle1WorldTransform,
                  Middle2Transform |->
                      IF Loads(Segment.WallModule.MiddleMesh2)
                      THEN CalculateSocketWorldTransform(Middle1WorldTransform,
                                                         FallbackHeight)
                      ELSE IdentityTransform,
                  TopTransform |-> IdentityTransform]
         IN  SpawnMiddleWallLayers(
                 IF Loads(Segment.WallModule.MiddleMesh1)
                 THEN Append(walls, PlacedWall) ELSE walls,
                 segs, n + 1, FallbackHeight)

\* SpawnTopWallLayer: the top transform of the records whose module has a top
\* mesh, on middle-2, else on middle-1, else on the base.
SpawnTopWallLayer(walls, FallbackHeight) ==
    [w \in 1..Len(walls) |->
        LET Wall == walls[w]
            StackBaseTransform ==
                IF Loads(Wall.WallModule.MiddleMesh2) THEN Wall.Middle2Transform
                ELSE IF Loads(Wall.WallModule.MiddleMesh1) THEN Wall.Middle1Transform
                ELSE Wall.BottomTransform
        IN  IF ~Loads(Wall.WallModule.TopMesh) THEN Wall
            ELSE [Wall EXCEPT !.TopTransform =
                     CalculateSocketWorldTransform(StackBaseTransform, FallbackHeight)]]

\* The guards of GenerateWalls: initialised, a wall style, a module in it.
CanGenerateWalls ==
    /\ bIsInitialized
    /\ Len(RoomData.WallStyleData) > 0
    /\ Len(RoomData.WallStyleData[1].AvailableWallModules) > 0

\* URoomGenerator::GenerateWalls and its copy in UUniformRoomGenerator.
UniformGenerateWalls(Shuffled) ==
    /\ ~fault
    /\ Strategy = "Uniform"
    /\ IF ~CanGenerateWalls
       THEN /\ last' = DoorCall("GenerateWalls", FALSE)
            /\ UNCHANGED <<GridState, wallVars, doorVars>>
       ELSE \E style \in {RoomData.WallStyleData[1]} :
            \E layouts \in {DoorwayLayoutsAfter(CachedDoorwayLayouts, RoomData, GridSize,
                                                DoorDataAsset, Shuffled)} :
            \E doors \in {DoorwayPlacements(layouts, GridSize, DoorDataAsset)} :
            \E forced \in {ExecuteForcedWallPlacements(<<>>, RoomData.ForcedWallPlacements,
                                                       1, GridSize, style)} :
            \E segs \in {FillWallEdges(forced, doors, GridSize, style)} :
               /\ CachedDoorwayLayouts' = layouts
               /\ PlacedDoorwayMeshes' = doors
               /\ GridState' = MarkDoorwayCells(GridState, doors, GridSize)
               /\ PlacedBaseWallSegments' = segs
               /\ PlacedWallMeshes' =
                     SpawnTopWallLayer(
                         SpawnMiddleWallLayers(<<>>, segs, 1, style.WallHeight),
                         style.WallHeight)
               /\ last' = DoorCall("GenerateWalls", TRUE)
    /\ UNCHANGED <<envVars, topologyVars, scanVars, bIsInitialized, GridSize, FloorTargetCellType, floorVars,
                   ceilingVars, cornerVars, chunkVars, actorVars, fault>>

ClearPlacedWalls ==
    /\ ~fault
    /\ PlacedWallMeshes' = <<>>
    /\ last' = NoArgCall("ClearPlacedWalls", TRUE)
    /\ UNCHANGED <<envVars, topologyVars, scanVars, gridVars, floorVars, PlacedBaseWallSegments, ceilingVars,
                   cornerVars, doorVars, chunkVars, actorVars, fault>>

\* ------------------------------------------------------------------
\* The walls of a uniform room
\* ------------------------------------------------------------------
WallModule(footprint, base, middle1, middle2, top) ==
    [Y_AxisFootprint |-> footprint, BaseMesh |-> base, MiddleMesh1 |-> middle1,
     MiddleMesh2 |-> middle2, TopMesh |-> top]

Wall1Base == WallModule(1, "SM_Wall_1", "None", "None", "None")
Wall1Top == WallModule(1, "SM_Wall_1", "None", "None", "SM_Top_1")
Wall2Full == WallModule(2, "SM_Wall_2", "SM_Mid1_2", "SM_Mid2_2", "SM_Top_2")
Wall2Mid == WallModule(2, "SM_Wall_2", "SM_Mid1_2", "None", "SM_Top_2")
Wall2OnlyMid2 == WallModule(2, "SM_Wall_2", "None", "SM_Mid2_2", "None")
Wall2NoBase == WallModule(2, "None", "SM_Mid1_2", "None", "None")
Wall3Mid == WallModule(3, "SM_Wall_3", "SM_Mid1_3", "None", "None")

WallHeight == 100

WallStyle(modules) ==
    [DefaultCornerMesh |-> TRUE, AvailableWallModules |-> modules,
     WallHeight |-> WallHeight,
     NorthWallOffsetX |-> 0, SouthWallOffsetX |-> 0,
     EastWallOffsetY |-> 0, WestWallOffsetY |-> 0]

ForcedWall(edge, start, module) ==
    [Edge |-> edge, StartCell |-> start, WallModule |-> module]

WallData(modules, forced) == [Modules |-> modules, Forced |-> forced]

\* The wall data: no module; unit modules; modules of one and two cells with
\* every combination of layers; forced walls inside, across and beyond an
\* edge; a module whose base mesh is unset.
WallDataChoices ==
    {WallData(<<>>, <<>>),
     WallData(<<Wall1Top>>, <<>>),
     WallData(<<Wall1Top, Wall2Full>>, <<>>),
     WallData(<<Wall2Mid, Wall2OnlyMid2, Wall1Base>>,
              <<ForcedWall("North", 1, Wall2Full), ForcedWall("East", 0, Wall1Top)>>),
     WallData(<<Wall2Full, Wall1Top>>,
              <<ForcedWall("South", SmallGrid, Wall2Mid), ForcedWall("West", 1, Wall2NoBase),
                ForcedWall("East", 1, Wall1Base)>>),
     WallData(<<Wall2Mid>>, <<>>),
     WallData(<<Wall3Mid, Wall2NoBase, Wall1Base>>, <<ForcedWall("East", 1, Wall1Top)>>)}

\* A standard doorway on the forced edge, or none.
WallRoomData(wd, bDoorway, edge) ==
    [DefaultRoomData EXCEPT
        !.WallStyleData = <<WallStyle(wd.Modules)>>,
        !.ForcedWallPlacements = wd.Forced,
        !.DefaultDoorData = "DA_Door",
        !.bGenerateStandardDoorway = bDoorway,
        !.bSetStandardDoorwayEdge = TRUE,
        !.StandardDoorwayEdge = edge]

WallRoomDataChoices ==
    {WallRoomData(wd, FALSE, "North") : wd \in WallDataChoices}
        \cup {WallRoomData(wd, TRUE, edge) : wd \in WallDataChoices, edge \in {"North", "East"}}
        \cup {[DefaultRoomData EXCEPT !.WallStyleData = <<>>]}

WallGridSizes == {Pt(SmallGrid + 1, SmallGrid + 2), Pt(MaxGrid + 1, SmallGrid + 1)}

InitWalls ==
    /\ Strategy = "Uniform"
    /\ RoomData \in WallRoomDataChoices
    /\ ChunkParams = NoProtrusions
    /\ DoorDataAsset = DefaultDoorStyle
    /\ GeneratorConstructed
    /\ ActorUnused

NextWalls ==
    \/ \E size \in WallGridSizes : InitializeIfNeeded(size)
    \/ UniformCreateGrid
    \/ \E s \in Shuffles : UniformGenerateWalls(s)
    \/ ClearPlacedWalls
    \/ ClearPlacedDoorways
    \/ ClearGrid

SpecWalls == InitWalls /\ [][NextWalls]_vars

\* ------------------------------------------------------------------
\* URoomGenerator: topology analysis
\* ------------------------------------------------------------------
\* ECellDirection in the order the loops visit it.
CellDirections == <<"North", "East", "South", "West">>

\* URoomGenerator::GetNeighborCell: here North is +Y and East is +X.
GetNeighborCell(Cell, Direction) ==
    CASE Direction = "North" -> Pt(Cell.X, Cell.Y + 1)
      [] Direction = "East"  -> Pt(Cell.X + 1, Cell.Y)
      [] Direction = "South" -> Pt(Cell.X, Cell.Y - 1)
      [] Direction = "West"  -> Pt(Cell.X - 1, Cell.Y)
      [] OTHER -> Cell

\* The test AnalyzeTopology and CountOccupiedNeighbors make of a cell state.
IsOccupiedState(state) == state = ECT_FloorMesh \/ state = ECT_Custom

CountOccupiedNeighbors(grid, gridSize, Cell) ==
    Cardinality({d \in 1..Len(CellDirections) :
                    LET Neighbour == GetNeighborCell(Cell, CellDirections[d])
                    IN  /\ IsValidGridCoordinate(Neighbour, gridSize)
                        /\ IsOccupiedState(grid[CoordinateToIndex(Neighbour, gridSize.X) + 1])})

\* DetectWalls: the directions towards a neighbour that is out of bounds or
\* whose state is ECT_Empty or ECT_Void.
DetectWalls(grid, gridSize, Cell) ==
    {Direction \in {CellDirections[d] : d \in 1..Len(CellDirections)} :
        LET Neighbour == GetNeighborCell(Cell, Direction)
        IN  \/ ~IsValidGridCoordinate(Neighbour, gridSize)
            \/ grid[CoordinateToIndex(Neighbour, gridSize.X) + 1] \in {ECT_Empty, ECT_Void}}

AreDirectionsAdjacent(Dir1, Dir2) ==
    {Dir1, Dir2} \in {{"North", "East"}, {"East", "South"}, {"South", "West"},
                      {"West", "North"}}

ClassifyCellZone(NeighborCount, WallDirections) ==
    LET WallCount == Cardinality(WallDirections)
    IN  IF WallCount = 3 THEN "DeadEnd"
        ELSE IF WallCount = 2
        THEN IF \E Dir1, Dir2 \in WallDirections :
                    Dir1 # Dir2 /\ AreDirectionsAdjacent(Dir1, Dir2)
             THEN "Corner" ELSE "Border"
        ELSE IF WallCount = 1 THEN "Border"
        ELSE "Center"

\* The FCellData AnalyzeTopology stores for an occupied cell.
CellDataOf(grid, gridSize, Cell) ==
    LET WallDirections == DetectWalls(grid, gridSize, Cell)
    IN  [Coordinates |-> Cell,
         bIsOccupied |-> TRUE,
         WallDirections |-> WallDirections,
         OpenDirections |-> {},
         CellZone |-> ClassifyCellZone(CountOccupiedNeighbors(grid, gridSize, Cell),
                                        WallDirections)]

\* FCellData::GetNeighborCount
GetNeighborCount(CellData) == 4 - Cardinality(CellData.WallDirections)

\* AnalyzeTopology reads GridState[Y * GridSize.X + X] for every cell of the
\* grid size without a range check.
AnalyzeTopology ==
    /\ ~fault
    /\ IF ~bIsInitialized
       THEN UNCHANGED <<topologyVars, fault>>
       ELSE IF Len(GridState) < GridSize.X * GridSize.Y
       THEN /\ CellMetadata' = {}
            /\ fault' = TRUE
            /\ UNCHANGED bTopologyAnalyzed
       ELSE /\ CellMetadata' =
                  {CellDataOf(GridState, GridSize, Cell) :
                      Cell \in {c \in [X : 0..(GridSize.X - 1), Y : 0..(GridSize.Y - 1)] :
                                   IsOccupiedState(
                                       GridState[CoordinateToIndex(c, GridSize.X) + 1])}}
            /\ bTopologyAnalyzed' = TRUE
            /\ UNCHANGED fault
    /\ last' = NoArgCall("AnalyzeTopology", TRUE)
    /\ UNCHANGED <<envVars, scanVars, gridVars, floorVars, wallVars, ceilingVars,
                   cornerVars, doorVars, chunkVars, actorVars>>

\* ------------------------------------------------------------------
\* The topology of generated rooms
\* ------------------------------------------------------------------
TopologyFloorDataChoices ==
    {FloorData(<<Tile1x1>>, <<>>, <<>>, <<>>),
     FloorData(<<Tile1x1>>, <<Region(1, 1, 1, 0)>>, <<Pt(0, 2)>>, <<>>),
     FloorData(<<Tile2x2>>, <<>>, <<Pt(1, 1)>>, <<>>),
     FloorData(<<Tile2x2, Tile1x1>>, <<Region(0, 1, SmallGrid, 1)>>, <<>>, <<>>),
     FloorData(<<Tile2x2, Tile1x1>>, <<>>, <<>>, <<>>)}

TopologyGridSizes == {Pt(SmallGrid, SmallGrid + 1), Pt(MaxGrid, MaxGrid)}

InitTopology ==
    /\ Strategy \in {"Uniform", "Chunky"}
    /\ \E fd \in TopologyFloorDataChoices : RoomData = FloorRoomData(fd)
    /\ \E seed \in ChunkySeeds : ChunkParams = Params(0, 1, 2, 3, 3, 4, seed)
    /\ DoorDataAsset = DefaultDoorStyle
    /\ GeneratorConstructed
    /\ ActorUnused

NextTopology ==
    \/ \E size \in TopologyGridSizes : InitializeIfNeeded(size)
    \/ UniformCreateGrid
    \/ \E seed \in StreamSeeds : ChunkyCreateGrid(seed)
    \/ \E tape \in {t \in Tapes : t[1] = t[2]} : UniformGenerateFloor(tape)
    \/ \E tape \in {t \in Tapes : t[1] = t[2]} : ChunkyGenerateFloor(tape)
    \/ AnalyzeTopology
    \/ ClearGrid

SpecTopology == InitTopology /\ [][NextTopology]_vars

\* ------------------------------------------------------------------
\* Properties of the floor packer
\* ------------------------------------------------------------------
\* The cells of the rectangle of a placement record.
RecordCells(r) ==
    {Pt(x, y) : x \in r.GridPosition.X..(r.GridPosition.X + r.GridFootprint.X - 1),
                y \in r.GridPosition.Y..(r.GridPosition.Y + r.GridFootprint.Y - 1)}

GridCells == {Pt(x, y) : x \in 0..(GridSize.X - 1), y \in 0..(GridSize.Y - 1)}

\* C1: the cell rectangles of the records in PlacedFloorMeshes are pairwise
\* disjoint and lie inside the grid, in every state of the life cycle.
C1_FloorNoOverlap ==
    /\ \A i \in 1..Len(PlacedFloorMeshes) :
          RecordCells(PlacedFloorMeshes[i]) \subseteq GridCells
    /\ \A i \in 1..Len(PlacedFloorMeshes) : \A j \in (i + 1)..Len(PlacedFloorMeshes) :
          RecordCells(PlacedFloorMeshes[i]) \cap RecordCells(PlacedFloorMeshes[j]) = {}

\* The forced-empty set of the room data: the cells of its regions' bounding
\* boxes and its individual cells.
ForcedEmptySet ==
    {c \in {Pt(x, y) : x \in (0 - 1)..(MaxGrid + 1), y \in (0 - 1)..(MaxGrid + 1)} :
        \/ \E i \in 1..Len(RoomData.ForcedEmptyRegions) :
              LET R == RoomData.ForcedEmptyRegions[i]
              IN  /\ c.X >= Min(R.StartCell.X, R.EndCell.X)
                  /\ c.X <= Max(R.StartCell.X, R.EndCell.X)
                  /\ c.Y >= Min(R.StartCell.Y, R.EndCell.Y)
                  /\ c.Y <= Max(R.StartCell.Y, R.EndCell.Y)
        \/ \E i \in 1..Len(RoomData.ForcedEmptyFloorCells) :
              c = RoomData.ForcedEmptyFloorCells[i]}

\* GenerateFloor has just run on a freshly created uniform grid, with a pool of
\* 1x1 tiles only, no forced placements and an in-bounds forced-empty set.
UnitTileFloorGenerated ==
    /\ Strategy = "Uniform"
    /\ last.op = "GenerateFloor" /\ last.ret /\ last.preFresh
    /\ \A i \in 1..Len(RoomData.FloorStyleData[1].FloorTilePool) :
          CalculateFootprint(RoomData.FloorStyleData[1].FloorTilePool[i]) = Pt(1, 1)
    /\ RoomData.ForcedFloorPlacements = <<>>
    /\ ForcedEmptySet \subseteq GridCells

\* The records GenerateFloor leaves: W * H - |F| of them, none on F.
UnitTileRecords ==
    /\ Len(PlacedFloorMeshes) = GridSize.X * GridSize.Y - Cardinality(ForcedEmptySet)
    /\ \A i \in 1..Len(PlacedFloorMeshes) :
          RecordCells(PlacedFloorMeshes[i]) \cap ForcedEmptySet = {}

\* C2 as stated: W * H - |F| records, none on F, and afterwards
\* GetCellCountByType(Reserved) equals |F|.
C2_ForcedEmptyCountedReserved ==
    UnitTileFloorGenerated =>
        /\ UnitTileRecords
        /\ GetCellCountByType(GridState, ECT_Reserved) = Cardinality(ForcedEmptySet)

\* C2 amended: W * H - |F| records, none on F, and afterwards the cells of F
\* are counted by GetCellCountByType(WallMesh), the wall-boundary state, while
\* GetCellCountByType(Reserved) is 0.
C2_ForcedEmptyCountedWallMesh ==
    UnitTileFloorGenerated =>
        /\ UnitTileRecords
        /\ GetCellCountByType(GridState, ECT_WallMesh) = Cardinality(ForcedEmptySet)
        /\ GetCellCountByType(GridState, ECT_Reserved) = 0

\* GenerateFloor has run on the larger grid with three forced-empty cells.
C2_Witness ==
    /\ UnitTileFloorGenerated
    /\ GridSize = Pt(MaxGrid, MaxGrid)
    /\ Cardinality(ForcedEmptySet) = 3
    /\ Len(PlacedFloorMeshes) = MaxGrid * MaxGrid - 3
\* ------------------------------------------------------------------
\* Properties of the rectangle operations
\* ------------------------------------------------------------------
\* C3: availability round trip.  When the rectangle of a MarkArea call was
\* available for the generator's fillable type and the type to mark with is
\* another type, MarkArea returns true, every cell of the rectangle has the new
\* type afterwards, and the rectangle is no longer available.
C3_MarkAreaRoundTrip ==
    (last.op = "MarkArea" /\ last.preAvail /\ last.CellType # FloorTargetCellType)
        => (last.ret /\ last.filled /\ ~last.postAvail)

\* C4: IsAreaAvailable returns true exactly when every cell of the rectangle
\* is inside the grid and has the required state, and it reads no cell of the
\* array other than the cells of the rectangle that are inside the grid.
C4_IsAreaAvailableExact ==
    last.op = "IsAreaAvailable" =>
        /\ last.ret = (\A c \in RectCells(last.Start, last.Size) :
                          /\ IsValidGridCoordinate(c, GridSize)
                          /\ GridState[CoordinateToIndex(c, GridSize.X) + 1]
                                = last.CellType)
        /\ last.reads \subseteq
              {CoordinateToIndex(c, GridSize.X) :
                  c \in {d \in RectCells(last.Start, last.Size) :
                            IsValidGridCoordinate(d, GridSize)}}

\* A call with a negative start whose index wraps to the last cell of the row
\* above, which has the required state: the call returns false.
C4_Witness ==
    /\ last.op = "IsAreaAvailable"
    /\ last.Start = Pt(-1, 1)
    /\ last.Size = Pt(1, 1)
    /\ GridState[GridSize.X] = last.CellType
    /\ ~last.ret

\* C5: rectangle operations are all-or-nothing.  A MarkArea, ClearArea or
\* TryPlaceMesh call whose rectangle has a cell outside the grid returns false
\* and changes no cell.
C5_AllOrNothing ==
    (last.op \in {"MarkArea", "ClearArea", "TryPlaceMesh"} /\ last.outside)
        => (~last.ret /\ ~last.changed)

\* ------------------------------------------------------------------
\* Properties of the chunky generator
\* ------------------------------------------------------------------
\* The grid is too small for a chunky room: fewer than 2 chunks on a side.
BelowMinimumSize == GridSize.X \div 2 < 2 \/ GridSize.Y \div 2 < 2

\* C6: minimum-size rejection.  CreateGrid on an initialised chunky generator
\* whose grid is below the minimum size signals the failure to its caller (it
\* returns false or leaves the generator uninitialised); and while the
\* generator is in that state no array access is out of range, no cell is a
\* room cell, and no floor record or corner is placed.
C6_MinimumSizeRejection ==
    (Strategy = "Chunky" /\ BelowMinimumSize) =>
        /\ last.op = "CreateGrid" => (~last.ret \/ ~bIsInitialized)
        /\ ~fault
        /\ GetCellCountByType(GridState, ECT_Custom) = 0
        /\ PlacedFloorMeshes = <<>>
        /\ PlacedCornerMeshes = <<>>

\* A room cell of a chunky grid: a cell inside the grid that is not void.
IsRoomCell(Cell) ==
    /\ IsValidGridCoordinate(Cell, GridSize)
    /\ GridState[CoordinateToIndex(Cell, GridSize.X) + 1] # ECT_Void

OccupiedSides(Cell) ==
    {Edge \in {"North", "South", "East", "West"} : IsRoomCell(Neighbor(Cell, Edge))}

\* C8: interior-corner classification.  After GenerateCorners has run, a void
\* cell holds an interior corner exactly when two of its four orthogonal
\* neighbours are room cells and the two are on adjacent sides.
C8_InteriorCornerClassification ==
    (last.op = "GenerateCorners" /\ last.ret /\ ~fault) =>
        \A k \in 1..Len(ScanOrder) :
            GridState[k] = ECT_Void =>
                (ScanOrder[k] \in CornerOccupiedCells
                    <=> /\ Cardinality(OccupiedSides(ScanOrder[k])) = 2
                        /\ OccupiedSides(ScanOrder[k]) \notin
                              {{"North", "South"}, {"East", "West"}})

\* C7: base room with zero protrusions.  After CreateGrid on an initialised
\* chunky generator with MinProtrusions = MaxProtrusions = 0 and a grid of at
\* least 2 x 2 chunks, the Custom cells are exactly the cells of the rectangle
\* [0, BaseRoomSize.X) x [0, BaseRoomSize.Y), every other cell is Void, each
\* side of the base room is an even number of chunks, at least 2, of 2 cells
\* each, and the number of Custom cells is BaseRoomSize.X * BaseRoomSize.Y.
C7_BaseRoomWithoutProtrusions ==
    (/\ Strategy = "Chunky"
     /\ last.op = "CreateGrid"
     /\ bIsInitialized
     /\ ~BelowMinimumSize
     /\ ChunkParams.MinProtrusions = 0
     /\ ChunkParams.MaxProtrusions = 0)
    => /\ BaseRoomSizeChunks.X % 2 = 0 /\ BaseRoomSizeChunks.X >= 2
       /\ BaseRoomSizeChunks.Y % 2 = 0 /\ BaseRoomSizeChunks.Y >= 2
       /\ BaseRoomSize = Pt(BaseRoomSizeChunks.X * 2, BaseRoomSizeChunks.Y * 2)
       /\ Len(GridState) = GridSize.X * GridSize.Y
       /\ \A k \in 1..Len(GridState) :
             GridState[k] = IF /\ ScanOrder[k].X < BaseRoomSize.X
                              /\ ScanOrder[k].Y < BaseRoomSize.Y
                           THEN ECT_Custom ELSE ECT_Void
       /\ GetCellCountByType(GridState, ECT_Custom) = BaseRoomSize.X * BaseRoomSize.Y

\* The example grid with base fraction 1/2: a base room of 4 x 4 chunks.
C7_Witness ==
    /\ last.op = "CreateGrid"
    /\ GridSize = Pt(ExampleGrid, ExampleGrid)
    /\ ChunkParams.BaseRoomPercentage = [Num |-> 1, Den |-> 2]
    /\ ChunkParams.MaxProtrusions = 0
    /\ BaseRoomSizeChunks = Pt(4, 4)
    /\ GetCellCountByType(GridState, ECT_Custom) = 64
    /\ GetCellCountByType(GridState, ECT_Void) = ExampleGrid * ExampleGrid - 64

\* ------------------------------------------------------------------
\* Properties of the doorway cache
\* ------------------------------------------------------------------
\* The layout decision of each placement, in order.
LayoutTriples(placed) ==
    [i \in 1..Len(placed) |-> <<placed[i].Edge, placed[i].StartCell, placed[i].WidthInCells>>]

\* The generator held cached layouts and their placements before the call:
\* an earlier GenerateDoorways cached them and nothing cleared them since.
CachedBeforeCall ==
    /\ last.op \in {"GenerateDoorways", "GenerateDoorwayMeshes"}
    /\ last.preCache # <<>>
    /\ last.preDoors # <<>>

\* C9: once GenerateDoorways has cached a layout, a later GenerateDoorways
\* with no clear in between, whatever the style's offsets are by then, leaves
\* CachedDoorwayLayouts as it was and yields placements with the same edge,
\* start cell and width, so IsCellPartOfDoorway reports the same cells.
C9_DoorwayCacheStability ==
    CachedBeforeCall =>
        /\ CachedDoorwayLayouts = last.preCache
        /\ LayoutTriples(PlacedDoorwayMeshes) = LayoutTriples(last.preDoors)
        /\ LayoutTriples(PlacedDoorwayMeshes) = LayoutTriples(CachedDoorwayLayouts)
        /\ DoorwayCells(PlacedDoorwayMeshes, GridSize) = last.preCells

\* A repeated GenerateDoorways after the offsets of a standard doorway's edge
\* were edited: the transforms differ, the doorway cells are there.
C9_Witness ==
    /\ CachedBeforeCall
    /\ last.ret
    /\ \E i \in 1..Len(PlacedDoorwayMeshes) :
          /\ PlacedDoorwayMeshes[i].bIsStandardDoorway
          /\ PlacedDoorwayMeshes[i].FrameTransform # last.preDoors[i].FrameTransform
          /\ PlacedDoorwayMeshes[i].ActorTransform # last.preDoors[i].ActorTransform
    /\ last.preCells # {}

\* C10: after the room is cleared, by ARoomActor::ClearRoomGrid in any state
\* of the actor or by the generator's ClearGrid, CachedDoorwayLayouts is
\* empty; ARoomActor::ClearDoorwayMeshes leaves the cache as it was.
C10_ClearDiscardsCache ==
    /\ last.op \in {"ClearRoomGrid", "ClearGrid"} => CachedDoorwayLayouts = <<>>
    /\ last.op = "ClearDoorwayMeshes" => CachedDoorwayLayouts = last.preCache

\* ------------------------------------------------------------------
\* Properties of the phases
\* ------------------------------------------------------------------
GenerateOps ==
    {"GenerateFloor", "GenerateWalls", "GenerateCorners", "GenerateDoorways",
     "GenerateCeiling"}

\* C11: a Generate* call that returns false leaves the grid and every list
\* of placement records, those of its own phase included, as they were.
C11_FailureLeavesStateUntouched ==
    [][(last'.op \in GenerateOps /\ ~last'.ret) =>
          UNCHANGED <<GridState, PlacedFloorMeshes, PlacedWallMeshes,
                      PlacedBaseWallSegments, PlacedCornerMeshes, PlacedDoorwayMeshes,
                      CachedDoorwayLayouts>>]_vars

\* ------------------------------------------------------------------
\* Properties of the seeded room shape
\* ------------------------------------------------------------------
\* The grid CreateGrid builds on a newly constructed chunky generator of the
\* current grid size and parameters, with the stream seeded by RandomSeed.
SeededShape ==
    LET chunkGrid == Pt(GridSize.X \div 2, GridSize.Y \div 2)
        baseChunks == Pt(BaseChunks(chunkGrid.X), BaseChunks(chunkGrid.Y))
        base == MarkChunkRectangle({}, chunkGrid, 0, 0, baseChunks.X, baseChunks.Y)
        seed == ChunkParams.RandomSeed
        NumProtrusions == RandRange(seed, 1, ChunkParams.MinProtrusions,
                                    ChunkParams.MaxProtrusions)
    IN  ConvertChunksToCells(
            AddProtrusions(base, chunkGrid, baseChunks, seed, 1, NumProtrusions),
            GridSize)

SeededCreateGridRan ==
    /\ Strategy = "Chunky"
    /\ last.op = "CreateGrid"
    /\ bIsInitialized
    /\ ChunkParams.RandomSeed >= 0
    /\ GridSize.X \div 2 >= 2
    /\ GridSize.Y \div 2 >= 2

C14_RotationFootprintLaw ==
    last.op = "GetRotatedFootprint" =>
        /\ last.Rotation % 360 \in {0, 180} => last.Footprint = last.Size
        /\ last.Rotation % 360 \in {90, 270} =>
              last.Footprint = Pt(last.Size.Y, last.Size.X)
        /\ last.HelperFootprint = last.Footprint

\* A negative quarter turn of a footprint that is not square.
C14_Witness ==
    /\ last.op = "GetRotatedFootprint"
    /\ last.Rotation < 0
    /\ last.Rotation % 360 = 270
    /\ last.Size.X # last.Size.Y
    /\ last.Footprint = Pt(last.Size.Y, last.Size.X)

\* ------------------------------------------------------------------
\* Properties of the grid array
\* ------------------------------------------------------------------
\* C15: whenever the generator is initialised the grid array holds exactly
\* GridSize.X * GridSize.Y cells, so every coordinate that
\* IsValidGridCoordinate accepts indexes inside the array.
C15_GridArraySize ==
    bIsInitialized =>
        /\ Len(GridState) = GridSize.X * GridSize.Y
        /\ \A x \in 0..(GridSize.X - 1) : \A y \in 0..(GridSize.Y - 1) :
              IsValidIndex(GridState, CoordinateToIndex(Pt(x, y), GridSize.X))

\* ------------------------------------------------------------------
\* Properties of the ceiling packer
\* ------------------------------------------------------------------
\* The cells of the rectangle (GridCoordinate, TileSize) of a ceiling record.
CeilingRecordCells(r) ==
    {Pt(x, y) : x \in r.GridCoordinate.X..(r.GridCoordinate.X + r.TileSize.X - 1),
                y \in r.GridCoordinate.Y..(r.GridCoordinate.Y + r.TileSize.Y - 1)}

\* C16: after a successful GenerateCeiling the rectangle of every record of
\* PlacedCeilingTiles lies inside the grid and the rectangles of the records
\* are pairwise disjoint.
C16_CeilingNoOverlap ==
    (last.op = "GenerateCeiling" /\ last.ret) =>
        /\ \A i \in 1..Len(PlacedCeilingTiles) :
              CeilingRecordCells(PlacedCeilingTiles[i]) \subseteq GridCells
        /\ \A i \in 1..Len(PlacedCeilingTiles) : \A j \in 1..Len(PlacedCeilingTiles) :
              i # j => CeilingRecordCells(PlacedCeilingTiles[i])
                          \cap CeilingRecordCells(PlacedCeilingTiles[j]) = {}

\* C12: on an initialised chunky generator with door and ceiling style data,
\* GenerateDoorways and GenerateCeiling return true and leave the placement
\* records the uniform generator's algorithm gives for the same grid size
\* and room data.
C12_StrategyAgnosticPhases ==
    (Strategy = "Chunky" /\ bIsInitialized) =>
        /\ last.op = "GenerateDoorways" =>
              /\ last.ret
              /\ \E s \in Shuffles :
                    PlacedDoorwayMeshes =
                        DoorwayPlacements(
                            DoorwayLayoutsAfter(last.preCache, RoomData, GridSize,
                                                DoorDataAsset, s),
                            GridSize, DoorDataAsset)
        /\ (last.op = "GenerateCeiling" /\ CanGenerateCeiling) =>
              /\ last.ret
              /\ \E tape \in Tapes : PlacedCeilingTiles = CeilingPhases(tape).placed

\* ------------------------------------------------------------------
\* Properties of the wall packer
\* ------------------------------------------------------------------
\* The number of cells of an edge: North and South run along Y, East and West
\* along X.
EdgeLength(Edge) == IF Edge \in {"North", "South"} THEN GridSize.Y ELSE GridSize.X

\* The half-open cell interval [start, start + length).
CellInterval(start, length) == start..(start + length - 1)

\* The segments the forced wall placements of the room data give: they are
\* the first entries of PlacedBaseWallSegments, the greedy pass adds the rest.
ForcedWallCount ==
    Len(ExecuteForcedWallPlacements(<<>>, RoomData.ForcedWallPlacements, 1, GridSize,
                                    RoomData.WallStyleData[1]))

ForcedSegments == 1..ForcedWallCount

GreedySegments == (ForcedWallCount + 1)..Len(PlacedBaseWallSegments)

WallsGenerated == last.op = "GenerateWalls" /\ last.ret

\* The cells of an edge that a placed doorway spans.
DoorwayOffsets(Edge) ==
    UNION {CellInterval(PlacedDoorwayMeshes[d].StartCell, PlacedDoorwayMeshes[d].WidthInCells) :
              d \in {e \in 1..Len(PlacedDoorwayMeshes) : PlacedDoorwayMeshes[e].Edge = Edge}}

\* The cells of an edge inside a forced wall segment.
ForcedOffsets(Edge) ==
    UNION {CellInterval(PlacedBaseWallSegments[f].StartCell,
                        PlacedBaseWallSegments[f].SegmentLength) :
              f \in {e \in ForcedSegments : PlacedBaseWallSegments[e].Edge = Edge}}

\* C17: after GenerateWalls on a uniform room every segment of the greedy
\* pass lies within its edge, holds no cell of a placed doorway, and its cell
\* interval is disjoint from every forced segment and every other greedy
\* segment of the same edge.
C17_WallExclusionZones ==
    WallsGenerated =>
        \A g \in GreedySegments :
            LET Segment == PlacedBaseWallSegments[g]
                Cells == CellInterval(Segment.StartCell, Segment.SegmentLength)
            IN  /\ Cells \subseteq 0..(EdgeLength(Segment.Edge) - 1)
                /\ Cells \cap DoorwayOffsets(Segment.Edge) = {}
                /\ \A o \in 1..Len(PlacedBaseWallSegments) :
                      (o # g /\ PlacedBaseWallSegments[o].Edge = Segment.Edge) =>
                          Cells \cap CellInterval(PlacedBaseWallSegments[o].StartCell,
                                                  PlacedBaseWallSegments[o].SegmentLength) = {}

\* A run of GenerateWalls that left a doorway, a forced segment and two
\* greedy segments on one edge.
C17_Witness ==
    /\ WallsGenerated
    /\ \E Edge \in {"North", "South", "East", "West"} :
          /\ DoorwayOffsets(Edge) # {}
          /\ ForcedOffsets(Edge) # {}
          /\ \E g \in GreedySegments : \E h \in GreedySegments :
                /\ g # h
                /\ PlacedBaseWallSegments[g].Edge = Edge
                /\ PlacedBaseWallSegments[h].Edge = Edge

\* The modules that fit at offset c of an edge: inside the remaining space,
\* over no doorway cell and over no cell of a forced wall.
QualifyingModules(Edge, c) ==
    LET Modules == RoomData.WallStyleData[1].AvailableWallModules
    IN  {m \in 1..Len(Modules) :
            LET Cells == CellInterval(c, Modules[m].Y_AxisFootprint)
            IN  /\ Modules[m].Y_AxisFootprint <= EdgeLength(Edge) - c
                /\ Cells \cap DoorwayOffsets(Edge) = {}
                /\ Cells \cap ForcedOffsets(Edge) = {}}

\* The largest footprint among the modules that fit at offset c.
LargestFootprint(Edge, c) ==
    LET Modules == RoomData.WallStyleData[1].AvailableWallModules
    IN  CHOOSE f \in {Modules[m].Y_AxisFootprint : m \in QualifyingModules(Edge, c)} :
            \A m \in QualifyingModules(Edge, c) : Modules[m].Y_AxisFootprint <= f

\* The greedy segments that start at offset c of an edge.
GreedyStartingAt(Edge, c) ==
    {g \in GreedySegments : /\ PlacedBaseWallSegments[g].Edge = Edge
                            /\ PlacedBaseWallSegments[g].StartCell = c}

\* The offsets of an edge the scan can stand on: those not inside a greedy
\* segment that starts before them.
ScanOffsets(Edge) ==
    {c \in 0..(EdgeLength(Edge) - 1) :
        ~\E g \in GreedySegments :
            /\ PlacedBaseWallSegments[g].Edge = Edge
            /\ PlacedBaseWallSegments[g].StartCell < c
            /\ c < PlacedBaseWallSegments[g].StartCell
                      + PlacedBaseWallSegments[g].SegmentLength}

\* An offset that is free and at which some module fits.
Fillable(Edge, c) ==
    /\ c \notin DoorwayOffsets(Edge)
    /\ c \notin ForcedOffsets(Edge)
    /\ QualifyingModules(Edge, c) # {}

\* Every committed segment has the largest footprint that fits at its offset.
CommittedAreLargest ==
    \A Edge \in {"North", "South", "East", "West"} : \A c \in ScanOffsets(Edge) :
        \A g \in GreedyStartingAt(Edge, c) :
            /\ QualifyingModules(Edge, c) # {}
            /\ PlacedBaseWallSegments[g].SegmentLength = LargestFootprint(Edge, c)

ChosenMeshFails(Edge, c) ==
    LET Modules == RoomData.WallStyleData[1].AvailableWallModules
        Largest == {m \in QualifyingModules(Edge, c) :
                       Modules[m].Y_AxisFootprint = LargestFootprint(Edge, c)}
    IN  /\ Fillable(Edge, c)
        /\ ~Loads(Modules[CHOOSE m \in Largest : \A o \in Largest : m <= o].BaseMesh)

HasMiddle1(Wall) == Wall.Middle1Transform # IdentityTransform

HasMiddle2(Wall) == Wall.Middle2Transform # IdentityTransform

\* The transform a top layer rests on: middle-2 if the record has one, else
\* middle-1, else the base.
TopRestsOn(Wall) ==
    IF HasMiddle2(Wall) THEN Wall.Middle2Transform
    ELSE IF HasMiddle1(Wall) THEN Wall.Middle1Transform
    ELSE Wall.BottomTransform

\* C19: after GenerateWalls every tracked base segment has exactly one wall
\* record, in the order of the segments; a record has a middle-2 layer only
\* if it has a middle-1 layer; and the record of every segment whose module
\* has a top mesh carries a top transform one wall height above the layer it
\* rests on, also when the module has no middle-1 mesh.
C19_WallStacking ==
    WallsGenerated =>
        /\ Len(PlacedWallMeshes) = Len(PlacedBaseWallSegments)
        /\ \A i \in 1..Len(PlacedBaseWallSegments) :
              i <= Len(PlacedWallMeshes) =>
                 LET Segment == PlacedBaseWallSegments[i]
                     Wall == PlacedWallMeshes[i]
                 IN  /\ Wall.Edge = Segment.Edge
                     /\ Wall.StartCell = Segment.StartCell
                     /\ Wall.SpanLength = Segment.SegmentLength
                     /\ Wall.BottomTransform = Segment.BaseTransform
                     /\ Loads(Segment.WallModule.TopMesh) =>
                           Wall.TopTransform =
                               CalculateSocketWorldTransform(
                                   TopRestsOn(Wall), RoomData.WallStyleData[1].WallHeight)
        /\ \A w \in 1..Len(PlacedWallMeshes) :
              HasMiddle2(PlacedWallMeshes[w]) => HasMiddle1(PlacedWallMeshes[w])

\* ------------------------------------------------------------------
\* Properties of the forced floor placements
\* ------------------------------------------------------------------
\* The footprint of a forced entry turned by a rotation: the sides change
\* places at a quarter and at three quarters of a turn.
TurnedFootprint(MeshInfo, Rotation) ==
    LET Footprint == IF MeshInfo.GridFootprint.X > 0 /\ MeshInfo.GridFootprint.Y > 0
                     THEN MeshInfo.GridFootprint ELSE Pt(1, 1)
    IN  IF Rotation % 360 \in {90, 270} THEN Pt(Footprint.Y, Footprint.X) ELSE Footprint

\* The cells of a rectangle.
Rectangle(StartCoord, Size) ==
    {Pt(x, y) : x \in StartCoord.X..(StartCoord.X + Size.X - 1),
                y \in StartCoord.Y..(StartCoord.Y + Size.Y - 1)}

\* The rotations tried for an entry: the declared ones, or 0 degrees alone.
RotationsTried(MeshInfo) ==
    IF Len(MeshInfo.AllowedRotations) > 0 THEN MeshInfo.AllowedRotations ELSE <<0>>

\* The records the forced entries from the n-th on must give when the cells
\* of taken are not fillable: an entry with a mesh is placed with its first
\* rotation whose rectangle is inside the grid and clear of taken; an entry
\* without mesh or without such a rotation is passed over.
RECURSIVE ExpectedForcedRecords(_, _)
ExpectedForcedRecords(n, taken) ==
    IF n > Len(RoomData.ForcedFloorPlacements) THEN <<>>
    ELSE LET StartCoord == RoomData.ForcedFloorPlacements[n].Key
             MeshInfo == RoomData.ForcedFloorPlacements[n].Value
             Tried == RotationsTried(MeshInfo)
             Cells(i) == Rectangle(StartCoord, TurnedFootprint(MeshInfo, Tried[i]))
             Fitting == {i \in 1..Len(Tried) :
                            Cells(i) \subseteq GridCells /\ Cells(i) \cap taken = {}}
             first == CHOOSE i \in Fitting : \A j \in Fitting : i <= j
         IN  IF MeshInfo.MeshAsset = "None" \/ Fitting = {}
             THEN ExpectedForcedRecords(n + 1, taken)
             ELSE <<[GridPosition |-> StartCoord,
                     GridFootprint |-> TurnedFootprint(MeshInfo, Tried[first]),
                     Rotation |-> Tried[first],
                     MeshInfo |-> MeshInfo]>>
                  \o ExpectedForcedRecords(n + 1, taken \cup Cells(first))

\* GenerateFloor has just run on a freshly created uniform grid with forced
\* placements and an in-bounds forced-empty set.
ForcedFloorGenerated ==
    /\ Strategy = "Uniform"
    /\ last.op = "GenerateFloor" /\ last.ret /\ last.preFresh
    /\ Len(RoomData.ForcedFloorPlacements) > 0
    /\ ForcedEmptySet \subseteq GridCells

\* C20: the records of the forced entries are the first records of
\* PlacedFloorMeshes and are those of the first fitting rotation of each
\* entry with a mesh, in declared order, 0 degrees alone when none is
\* declared; an entry that does not fit leaves no record and no cell
\* changed, and the later phases still fill every other fillable cell when
\* the pool has a 1x1 tile.
C20_ForcedFloorPlacements ==
    ForcedFloorGenerated =>
        LET Expected == ExpectedForcedRecords(1, ForcedEmptySet)
            ForcedCells == UNION {RecordCells(Expected[i]) : i \in 1..Len(Expected)}
            Pool == RoomData.FloorStyleData[1].FloorTilePool
        IN  /\ Len(PlacedFloorMeshes) >= Len(Expected)
            /\ SubSeq(PlacedFloorMeshes, 1, Len(Expected)) = Expected
            /\ \A i \in (Len(Expected) + 1)..Len(PlacedFloorMeshes) :
                  /\ PlacedFloorMeshes[i].GridPosition \in GridCells
                  /\ RecordCells(PlacedFloorMeshes[i]) \cap (ForcedCells \cup ForcedEmptySet) = {}
            /\ (\E t \in 1..Len(Pool) : Pool[t].GridFootprint = Pt(1, 1)) =>
                  \A c \in GridCells \ ForcedEmptySet :
                      Cardinality({i \in 1..Len(PlacedFloorMeshes) :
                                      c \in RecordCells(PlacedFloorMeshes[i])}) = 1

\* A run in which one entry was placed with its second rotation because the
\* first did not fit, a later entry with a mesh was passed over, and the
\* later phases placed tiles.
C20_Witness ==
    /\ ForcedFloorGenerated
    /\ \E i \in 1..Len(PlacedFloorMeshes) : \E n \in 1..Len(RoomData.ForcedFloorPlacements) :
          LET Entry == RoomData.ForcedFloorPlacements[n]
          IN  /\ i <= Len(ExpectedForcedRecords(1, ForcedEmptySet))
              /\ PlacedFloorMeshes[i].GridPosition = Entry.Key
              /\ Len(Entry.Value.AllowedRotations) > 1
              /\ PlacedFloorMeshes[i].Rotation = Entry.Value.AllowedRotations[2]
    /\ \E n \in 1..Len(RoomData.ForcedFloorPlacements) :
          /\ RoomData.ForcedFloorPlacements[n].Value.MeshAsset # "None"
          /\ \A i \in 1..Len(PlacedFloorMeshes) :
                PlacedFloorMeshes[i].GridPosition # RoomData.ForcedFloorPlacements[n].Key
                    \/ PlacedFloorMeshes[i].MeshInfo # RoomData.ForcedFloorPlacements[n].Value
    /\ Len(PlacedFloorMeshes) > Len(ExpectedForcedRecords(1, ForcedEmptySet))

\* ------------------------------------------------------------------
\* Properties of the forced-empty expansion
\* ------------------------------------------------------------------
\* The cells of the grid that lie inside the rectangle of a forced-empty
\* region, its corners in any order, or are listed individually.
InGridForcedEmpty ==
    {c \in GridCells :
        \/ \E i \in 1..Len(RoomData.ForcedEmptyRegions) :
              LET R == RoomData.ForcedEmptyRegions[i]
              IN  /\ c.X >= Min(R.StartCell.X, R.EndCell.X)
                  /\ c.X <= Max(R.StartCell.X, R.EndCell.X)
                  /\ c.Y >= Min(R.StartCell.Y, R.EndCell.Y)
                  /\ c.Y <= Max(R.StartCell.Y, R.EndCell.Y)
        \/ \E i \in 1..Len(RoomData.ForcedEmptyFloorCells) :
              c = RoomData.ForcedEmptyFloorCells[i]}

\* C21: after a GenerateFloor that returned true, ExpandForcedEmptyRegions
\* returns without duplicates exactly the in-grid cells that lie inside a
\* configured region or are listed individually (a region wholly outside the
\* grid contributes none), and no floor record covers a cell of that set.
C21_ForcedEmptyExpansion ==
    (Strategy = "Uniform" /\ last.op = "GenerateFloor" /\ last.ret /\ last.preFresh) =>
        LET Expanded == ExpandForcedEmptyRegions
        IN  /\ \A i \in 1..Len(Expanded) : \A j \in (i + 1)..Len(Expanded) :
                  Expanded[i] # Expanded[j]
            /\ {Expanded[i] : i \in 1..Len(Expanded)} = InGridForcedEmpty
            /\ \A r \in 1..Len(PlacedFloorMeshes) :
                  RecordCells(PlacedFloorMeshes[r]) \cap InGridForcedEmpty = {}

\* ------------------------------------------------------------------
\* Properties of the greedy floor passes
\* ------------------------------------------------------------------
\* The record is the one of a forced floor placement of the room data.
IsForcedRecord(r) ==
    \E n \in 1..Len(RoomData.ForcedFloorPlacements) :
        /\ RoomData.ForcedFloorPlacements[n].Key = r.GridPosition
        /\ RoomData.ForcedFloorPlacements[n].Value = r.MeshInfo

\* The records the size-descending pass and the gap-fill pass committed.
GreedyRecords ==
    {i \in 1..Len(PlacedFloorMeshes) : ~IsForcedRecord(PlacedFloorMeshes[i])}

\* C22: after a GenerateFloor that returned true, every record of the
\* size-descending pass or the gap-fill pass stores a rotation that turns the
\* footprint of its pool entry into the footprint of the record.
C22_RotationMatchesFootprint ==
    (Strategy = "Uniform" /\ last.op = "GenerateFloor" /\ last.ret /\ last.preFresh) =>
        \A i \in GreedyRecords :
            GetRotatedFootprint(CalculateFootprint(PlacedFloorMeshes[i].MeshInfo),
                                PlacedFloorMeshes[i].Rotation)
                = PlacedFloorMeshes[i].GridFootprint

\* ------------------------------------------------------------------
\* Properties of the topology analysis
\* ------------------------------------------------------------------
\* The state of a cell of the grid.
StateAt(Cell) == GridState[CoordinateToIndex(Cell, GridSize.X) + 1]

\* C24: after AnalyzeTopology, a direction is in the wall directions of an
\* analysed cell exactly when the neighbour in that direction is out of
\* bounds or is not an occupied cell, so the wall count and the number of
\* occupied cardinal neighbours sum to 4 (GetNeighborCount equals
\* CountOccupiedNeighbors).
C24_TopologyWallDetection ==
    (last.op = "AnalyzeTopology" /\ bIsInitialized /\ bTopologyAnalyzed /\ ~fault) =>
        \A CellData \in CellMetadata :
            /\ IsOccupiedState(StateAt(CellData.Coordinates))
            /\ \A d \in 1..Len(CellDirections) :
                  LET Neighbour == GetNeighborCell(CellData.Coordinates, CellDirections[d])
                  IN  CellDirections[d] \in CellData.WallDirections
                          <=> (\/ Neighbour \notin GridCells
                               \/ ~IsOccupiedState(StateAt(Neighbour)))
            /\ GetNeighborCount(CellData)
                   = CountOccupiedNeighbors(GridState, GridSize, CellData.Coordinates)

\* The reporting category of a tile of the given area.
TileCategory(TileArea) ==
    IF TileArea >= 16 THEN "Large"
    ELSE IF TileArea >= 4 THEN "Medium"
    ELSE IF TileArea >= 2 THEN "Small"
    ELSE "Filler"

\* The number of records of the greedy passes in a category.
GreedyCount(category) ==
    Cardinality({i \in GreedyRecords :
                    TileCategory(PlacedFloorMeshes[i].GridFootprint.X
                                     * PlacedFloorMeshes[i].GridFootprint.Y) = category})

\* C25: after a GenerateFloor that returned true, GetFloorStatistics returns
\* the per-category counts of the tiles the size-descending and gap-fill
\* passes of that run placed, so the four counts sum to the number of
\* non-forced floor records.
C25_FloorStatistics ==
    (Strategy = "Uniform" /\ last.op = "GenerateFloor" /\ last.ret /\ last.preFresh) =>
        /\ GetFloorStatistics = [Large |-> GreedyCount("Large"),
                                 Medium |-> GreedyCount("Medium"),
                                 Small |-> GreedyCount("Small"),
                                 Filler |-> GreedyCount("Filler")]
        /\ GetFloorStatistics.Large + GetFloorStatistics.Medium
               + GetFloorStatistics.Small + GetFloorStatistics.Filler
                   = Cardinality(GreedyRecords)

\* ------------------------------------------------------------------
\* Properties of the doorway layouts
\* ------------------------------------------------------------------
\* The call computed the layouts anew and cached them.
LayoutsJustCached ==
    /\ last.op \in {"GenerateDoorways", "GenerateDoorwayMeshes"}
    /\ last.ret
    /\ last.preCache = <<>>

\* The layout lies on its edge.
LayoutOnEdge(Layout) ==
    /\ 0 <= Layout.StartCell
    /\ Layout.StartCell + Layout.WidthInCells
           <= Len(GetEdgeCellIndices(Layout.Edge, GridSize))

\* The cells left free before and after the layout differ by at most one.
LayoutCentred(Layout) ==
    LET Before == Layout.StartCell
        After == Len(GetEdgeCellIndices(Layout.Edge, GridSize))
                     - (Layout.StartCell + Layout.WidthInCells)
    IN  After - Before \in {0, 1}

\* An automatic layout overlaps no layout cached before it on its edge.
NoOverlapWithEarlier(k) ==
    \A j \in 1..(k - 1) :
        CachedDoorwayLayouts[j].Edge = CachedDoorwayLayouts[k].Edge =>
            \/ CachedDoorwayLayouts[j].StartCell + CachedDoorwayLayouts[j].WidthInCells
                   <= CachedDoorwayLayouts[k].StartCell
            \/ CachedDoorwayLayouts[k].StartCell + CachedDoorwayLayouts[k].WidthInCells
                   <= CachedDoorwayLayouts[j].StartCell

\* C27: every layout GenerateDoorways caches, manual or automatic, lies on
\* its edge (0 <= StartCell and StartCell + WidthInCells <= the cell count of
\* the edge); an automatic layout is centred on its edge and overlaps no
\* layout cached before it on the same edge.
C27_DoorwayLayoutsOnEdge ==
    LayoutsJustCached =>
        \A k \in 1..Len(CachedDoorwayLayouts) :
            /\ LayoutOnEdge(CachedDoorwayLayouts[k])
            /\ CachedDoorwayLayouts[k].bIsStandardDoorway =>
                  /\ LayoutCentred(CachedDoorwayLayouts[k])
                  /\ NoOverlapWithEarlier(k)

\* ------------------------------------------------------------------
\* UChunkyRoomGenerator: wall generation
\* ------------------------------------------------------------------
\* GetPerimeterCellsForEdge: a room cell whose neighbour towards the edge is
\* outside the grid, or is a void cell that no interior corner occupies.
IsPerimeterCell(grid, corners, Edge, FloorCell) ==
    /\ GetCellState(grid, FloorCell) = ECT_Custom
    /\ \/ ~IsValidGridCoordinate(Neighbor(FloorCell, Edge), GridSize)
       \/ /\ GetCellState(grid, Neighbor(FloorCell, Edge)) = ECT_Void
          /\ Neighbor(FloorCell, Edge) \notin corners

\* The key of the sort: Y on the North and South edges, X on East and West.
SortKey(Edge, Cell) == IF Edge \in {"North", "South"} THEN Cell.Y ELSE Cell.X

\* EdgeCells.Sort by the key; cells of equal key keep the order of the scan.
RECURSIVE SortEdgeCells(_, _, _)
SortEdgeCells(EdgeCells, Edge, key) ==
    IF key >= Max(GridSize.X, GridSize.Y) THEN <<>>
    ELSE SelectSeq(EdgeCells, LAMBDA Cell : SortKey(Edge, Cell) = key)
             \o SortEdgeCells(EdgeCells, Edge, key + 1)

GetPerimeterCellsForEdge(grid, corners, Edge) ==
    SortEdgeCells(SelectSeq(ScanOrder,
                            LAMBDA Cell : IsPerimeterCell(grid, corners, Edge, Cell)),
                  Edge, 0)

\* UChunkyRoomGenerator::CalculateWallPositionForSegment; (ModuleFootprint - 1) / 2
\* cells plus half a cell is ModuleFootprint half cells.
CalculateWallPositionForSegment(Direction, StartCell, ModuleFootprint, style) ==
    LET HalfSpan == ModuleFootprint * (CELL_SIZE \div 2)
    IN  CASE Direction = "North" ->
                 Pt((StartCell.X + 1) * CELL_SIZE + style.NorthWallOffsetX,
                    StartCell.Y * CELL_SIZE + HalfSpan)
          [] Direction = "South" ->
                 Pt(StartCell.X * CELL_SIZE + style.SouthWallOffsetX,
                    StartCell.Y * CELL_SIZE + HalfSpan)
          [] Direction = "East" ->
                 Pt(StartCell.X * CELL_SIZE + HalfSpan,
                    (StartCell.Y + 1) * CELL_SIZE + style.EastWallOffsetY)
          [] Direction = "West" ->
                 Pt(StartCell.X * CELL_SIZE + HalfSpan,
                    StartCell.Y * CELL_SIZE + style.WestWallOffsetY)
          [] OTHER -> Pt(0, 0)

\* FillChunkyWallEdge: the cells CurrentCell .. CurrentCell + footprint - 1 of
\* EdgeCells follow one another along the edge.
CellsConsecutive(EdgeCells, Edge, CurrentCell, Footprint) ==
    \A i \in 1..(Footprint - 1) :
        LET CurrentCellPos == EdgeCells[CurrentCell + i]
            NextCellPos == EdgeCells[CurrentCell + i + 1]
        IN  IF Edge \in {"North", "South"}
            THEN NextCellPos.Y = CurrentCellPos.Y + 1 /\ NextCellPos.X = CurrentCellPos.X
            ELSE NextCellPos.X = CurrentCellPos.X + 1 /\ NextCellPos.Y = CurrentCellPos.Y

\* FillChunkyWallEdge: the modules that may be placed at CurrentCell.
ChunkyModuleFits(EdgeCells, Edge, CurrentCell, Module) ==
    /\ Module.Y_AxisFootprint <= Len(EdgeCells) - CurrentCell
    /\ CellsConsecutive(EdgeCells, Edge, CurrentCell, Module.Y_AxisFootprint)

\* The segment FillChunkyWallEdge tracks: StartCell is the index in EdgeCells.
ChunkyWallSegment(Edge, EdgeCells, CurrentCell, Module, style) ==
    [Edge |-> Edge,
     StartCell |-> CurrentCell,
     SegmentLength |-> Module.Y_AxisFootprint,
     BaseTransform |->
        Transform(CalculateWallPositionForSegment(Edge, EdgeCells[CurrentCell + 1],
                                                  Module.Y_AxisFootprint, style),
                  0, GetWallRotationForEdge(Edge)),
     BaseMesh |-> Module.BaseMesh,
     WallModule |-> Module]

\* One iteration of the loop of FillChunkyWallEdge: the segments and the
\* scan offset after it.
FillChunkyWallEdgeStep(segs, EdgeCells, style, Edge, CurrentCell) ==
    LET Modules == style.AvailableWallModules
        Fitting == {m \in 1..Len(Modules) :
                       ChunkyModuleFits(EdgeCells, Edge, CurrentCell, Modules[m])}
        Best == BestModule(Modules, Fitting)
    IN  IF Best = 0 THEN [segs |-> segs, CurrentCell |-> CurrentCell + 1, bBreak |-> FALSE]
        ELSE IF ~Loads(Modules[Best].BaseMesh)
        THEN [segs |-> segs, CurrentCell |-> CurrentCell + 1, bBreak |-> FALSE]
        ELSE [segs |-> Append(segs, ChunkyWallSegment(Edge, EdgeCells, CurrentCell,
                                                      Modules[Best], style)),
              CurrentCell |-> CurrentCell + Modules[Best].Y_AxisFootprint,
              bBreak |-> FALSE]

\* The loop of FillChunkyWallEdge from CurrentCell on.
RECURSIVE FillChunkyWallEdgeFrom(_, _, _, _, _)
FillChunkyWallEdgeFrom(segs, EdgeCells, style, Edge, CurrentCell) ==
    IF CurrentCell >= Len(EdgeCells) THEN segs
    ELSE Bind(FillChunkyWallEdgeStep(segs, EdgeCells, style, Edge, CurrentCell),
              LAMBDA next : FillChunkyWallEdgeFrom(next.segs, EdgeCells, style, Edge,
                                                   next.CurrentCell))

FillChunkyWallEdge(segs, grid, corners, style, Edge) ==
    IF Len(style.AvailableWallModules) = 0 THEN segs
    ELSE FillChunkyWallEdgeFrom(segs, GetPerimeterCellsForEdge(grid, corners, Edge),
                                style, Edge, 0)

\* The four calls of FillChunkyWallEdge in GenerateWalls.
FillChunkyWallEdges(segs, grid, corners, style) ==
    FillChunkyWallEdge(
        FillChunkyWallEdge(
            FillChunkyWallEdge(
                FillChunkyWallEdge(segs, grid, corners, style, "North"),
                grid, corners, style, "South"),
            grid, corners, style, "East"),
        grid, corners, style, "West")

\* GetPerimeterCellsForEdge reads a cell of GridState that the array does not have.
PerimeterScanReadsOutside(grid) ==
    \E k \in 1..Len(ScanOrder) : GetCellState(grid, ScanOrder[k]) = OutOfArray

\* UChunkyRoomGenerator::GenerateWalls: the tracked base segments are kept
\* and the new ones are added to them.
ChunkyGenerateWalls ==
    /\ ~fault
    /\ Strategy = "Chunky"
    /\ Len(PlacedBaseWallSegments) <= MaxWallSegments
    /\ IF ~bIsInitialized \/ Len(RoomData.WallStyleData) = 0
       THEN /\ last' = NoArgCall("GenerateWalls", FALSE)
            /\ UNCHANGED <<wallVars, fault>>
       ELSE IF /\ Len(RoomData.WallStyleData[1].AvailableWallModules) > 0
               /\ PerimeterScanReadsOutside(GridState)
       THEN /\ PlacedWallMeshes' = <<>>
            /\ UNCHANGED PlacedBaseWallSegments
            /\ fault' = TRUE
            /\ last' = NoArgCall("GenerateWalls", TRUE)
       ELSE \E style \in {RoomData.WallStyleData[1]} :
            \E segs \in {FillChunkyWallEdges(PlacedBaseWallSegments, GridState,
                                             CornerOccupiedCells, style)} :
               /\ PlacedBaseWallSegments' = segs
               /\ PlacedWallMeshes' =
                     SpawnTopWallLayer(
                         SpawnMiddleWallLayers(<<>>, segs, 1, style.WallHeight),
                         style.WallHeight)
               /\ fault' = FALSE
               /\ last' = NoArgCall("GenerateWalls", TRUE)
    /\ UNCHANGED <<envVars, topologyVars, scanVars, gridVars, floorVars, ceilingVars,
                   cornerVars, doorVars, chunkVars, actorVars>>

\* ------------------------------------------------------------------
\* The walls and corners of a chunky room
\* ------------------------------------------------------------------
\* Wall styles with and without a corner mesh, and no wall style.
ChunkyWallRoomDataChoices ==
    {[DefaultRoomData EXCEPT !.WallStyleData = <<WallStyle(modules)>>] :
        modules \in {<<Wall1Top>>, <<Wall2Full, Wall1Top>>, <<Wall2Mid>>,
                     <<Wall2NoBase, Wall1Base>>, <<>>}}
        \cup {[DefaultRoomData EXCEPT !.WallStyleData = <<>>]}

\* No protrusion; protrusions of two and three chunks on each edge.
ChunkyWallSeeds == {0, 257, 261, 265, 269, 273, 5}

ChunkyWallGridSizes == {Pt(MaxChunkSide, MaxChunkSide), Pt(ChunkyGrid, MaxChunkSide)}

InitChunkyWalls ==
    /\ Strategy = "Chunky"
    /\ RoomData \in ChunkyWallRoomDataChoices
    /\ \E seed \in ChunkyWallSeeds : ChunkParams = Params(0, 1, 2, 3, 3, 4, seed)
    /\ DoorDataAsset = DefaultDoorStyle
    /\ GeneratorConstructed
    /\ ActorUnused

NextChunkyWalls ==
    \/ \E size \in ChunkyWallGridSizes : InitializeIfNeeded(size)
    \/ \E seed \in StreamSeeds : ChunkyCreateGrid(seed)
    \/ ChunkyGenerateCorners
    \/ ChunkyGenerateWalls
    \/ ClearPlacedWalls

SpecChunkyWalls == InitChunkyWalls /\ [][NextChunkyWalls]_vars

\* ------------------------------------------------------------------
\* Properties of the walls of a chunky room
\* ------------------------------------------------------------------
\* The first perimeter cell of a tracked segment, read back from its base
\* transform.
SegmentStartCell(Segment, style) ==
    LET HalfSpan == Segment.SegmentLength * (CELL_SIZE \div 2)
        Loc == Segment.BaseTransform.Location
    IN  CASE Segment.Edge = "North" ->
                 Pt((Loc.X - style.NorthWallOffsetX) \div CELL_SIZE - 1,
                    (Loc.Y - HalfSpan) \div CELL_SIZE)
          [] Segment.Edge = "South" ->
                 Pt((Loc.X - style.SouthWallOffsetX) \div CELL_SIZE,
                    (Loc.Y - HalfSpan) \div CELL_SIZE)
          [] Segment.Edge = "East" ->
                 Pt((Loc.X - HalfSpan) \div CELL_SIZE,
                    (Loc.Y - style.EastWallOffsetY) \div CELL_SIZE - 1)
          [] OTHER ->
                 Pt((Loc.X - HalfSpan) \div CELL_SIZE,
                    (Loc.Y - style.WestWallOffsetY) \div CELL_SIZE)

\* The perimeter cells a tracked segment covers.
SegmentCells(Segment, style) ==
    LET Start == SegmentStartCell(Segment, style)
    IN  {IF Segment.Edge \in {"North", "South"}
         THEN Pt(Start.X, Start.Y + i) ELSE Pt(Start.X + i, Start.Y) :
            i \in 0..(Segment.SegmentLength - 1)}

\* The segment covers a cell whose neighbour towards the segment's edge is a
\* recorded interior corner.
SegmentFacesCorner(Segment, style) ==
    \E Cell \in SegmentCells(Segment, style) :
        Neighbor(Cell, Segment.Edge) \in CornerOccupiedCells

\* C23: on a chunky room, once GenerateCorners and GenerateWalls have both
\* run, in whatever order, no tracked wall segment covers a perimeter cell
\* whose outward neighbour in the segment's edge direction is a void cell
\* recorded as an interior corner.
C23_NoWallFacesCorner ==
    (/\ Strategy = "Chunky"
     /\ bIsInitialized
     /\ ~fault
     /\ last.op \in {"GenerateCorners", "GenerateWalls"}
     /\ last.ret
     /\ Len(RoomData.WallStyleData) > 0) =>
        \A s \in 1..Len(PlacedBaseWallSegments) :
            ~SegmentFacesCorner(PlacedBaseWallSegments[s], RoomData.WallStyleData[1])

\* The step is a successful GenerateWalls that follows a successful GenerateWalls.
SecondGenerateWalls ==
    /\ last.op = "GenerateWalls" /\ last.ret /\ ~fault
    /\ last'.op = "GenerateWalls" /\ last'.ret /\ ~fault'

\* C26: a second GenerateWalls in a row, on an unchanged grid and
\* configuration, leaves the tracked base segments and the wall placement
\* records as the first call left them: nothing is duplicated or accumulated.
C26_GenerateWallsReinvocable ==
    [][SecondGenerateWalls =>
          /\ PlacedBaseWallSegments' = PlacedBaseWallSegments
          /\ PlacedWallMeshes' = PlacedWallMeshes]_vars

\* ------------------------------------------------------------------
\* GenerateWalls, one loop iteration at a time
\* ------------------------------------------------------------------
\* GenerateWalls is in the packing loop of edge EdgeOfIndex[EdgeIndex], at
\* scan offset CurrentCell; bLoopLeft after a break.
WallScanAt(EdgeIndex, CurrentCell, bLoopLeft) ==
    [op |-> "GenerateWalls", EdgeIndex |-> EdgeIndex, CurrentCell |-> CurrentCell,
     bLoopLeft |-> bLoopLeft]

\* EdgeCells of the loop in progress: GetEdgeCellIndices in FillWallEdge,
\* GetPerimeterCellsForEdge in FillChunkyWallEdge.
ScanEdgeCells(EdgeIndex) ==
    IF Strategy = "Uniform" THEN GetEdgeCellIndices(EdgeOfIndex[EdgeIndex], GridSize)
    ELSE GetPerimeterCellsForEdge(GridState, CornerOccupiedCells, EdgeOfIndex[EdgeIndex])

\* The condition of the while loop, after the early returns of the function.
ScanLoopRuns ==
    /\ wallScan.op = "GenerateWalls"
    /\ ~wallScan.bLoopLeft
    /\ Len(RoomData.WallStyleData[1].AvailableWallModules) > 0
    /\ wallScan.CurrentCell < Len(ScanEdgeCells(wallScan.EdgeIndex))

\* GenerateWalls up to the first loop: the guards, the clearing, the doorways
\* and the forced placements.
GenerateWallsBegin(Shuffled) ==
    /\ ~fault
    /\ wallScan = Idle
    /\ Len(PlacedBaseWallSegments) <= MaxWallSegments
    /\ IF Strategy = "Uniform"
       THEN IF ~CanGenerateWalls
            THEN /\ last' = DoorCall("GenerateWalls", FALSE)
                 /\ UNCHANGED <<GridState, wallVars, doorVars, wallScan, fault>>
            ELSE \E style \in {RoomData.WallStyleData[1]} :
                 \E layouts \in {DoorwayLayoutsAfter(CachedDoorwayLayouts, RoomData,
                                                     GridSize, DoorDataAsset, Shuffled)} :
                 \E doors \in {DoorwayPlacements(layouts, GridSize, DoorDataAsset)} :
                    /\ CachedDoorwayLayouts' = layouts
                    /\ PlacedDoorwayMeshes' = doors
                    /\ GridState' = MarkDoorwayCells(GridState, doors, GridSize)
                    /\ PlacedBaseWallSegments' =
                          ExecuteForcedWallPlacements(<<>>, RoomData.ForcedWallPlacements,
                                                      1, GridSize, style)
                    /\ PlacedWallMeshes' = <<>>
                    /\ wallScan' = WallScanAt(1, 0, FALSE)
                    /\ UNCHANGED <<last, fault>>
       ELSE IF ~bIsInitialized \/ Len(RoomData.WallStyleData) = 0
            THEN /\ last' = NoArgCall("GenerateWalls", FALSE)
                 /\ UNCHANGED <<GridState, wallVars, doorVars, wallScan, fault>>
            ELSE IF /\ Len(RoomData.WallStyleData[1].AvailableWallModules) > 0
                    /\ PerimeterScanReadsOutside(GridState)
            THEN /\ PlacedWallMeshes' = <<>>
                 /\ fault' = TRUE
                 /\ last' = NoArgCall("GenerateWalls", TRUE)
                 /\ UNCHANGED <<GridState, PlacedBaseWallSegments, doorVars, wallScan>>
            ELSE /\ PlacedWallMeshes' = <<>>
                 /\ wallScan' = WallScanAt(1, 0, FALSE)
                 /\ UNCHANGED <<GridState, PlacedBaseWallSegments, doorVars, last, fault>>
    /\ UNCHANGED <<envVars, topologyVars, bIsInitialized, GridSize, FloorTargetCellType,
                   floorVars, ceilingVars, cornerVars, chunkVars, actorVars>>

\* One iteration of the while loop of FillWallEdge or FillChunkyWallEdge.
GenerateWallsIteration ==
    /\ ScanLoopRuns
    /\ Len(PlacedBaseWallSegments) <= MaxWallSegments
    /\ \E style \in {RoomData.WallStyleData[1]} :
       \E next \in {IF Strategy = "Uniform"
                    THEN FillWallEdgeStep(PlacedBaseWallSegments, PlacedDoorwayMeshes,
                                          GridSize, style, EdgeOfIndex[wallScan.EdgeIndex],
                                          wallScan.CurrentCell)
                    ELSE FillChunkyWallEdgeStep(PlacedBaseWallSegments,
                                                ScanEdgeCells(wallScan.EdgeIndex), style,
                                                EdgeOfIndex[wallScan.EdgeIndex],
                                                wallScan.CurrentCell)} :
          /\ PlacedBaseWallSegments' = next.segs
          /\ wallScan' = WallScanAt(wallScan.EdgeIndex, next.CurrentCell, next.bBreak)
    /\ UNCHANGED <<envVars, topologyVars, gridVars, floorVars, PlacedWallMeshes,
                   ceilingVars, cornerVars, doorVars, chunkVars, actorVars, fault, last>>

\* The loop of one edge is over and the next edge starts.
GenerateWallsNextEdge ==
    /\ wallScan.op = "GenerateWalls"
    /\ ~ScanLoopRuns
    /\ wallScan.EdgeIndex < Len(EdgeOfIndex)
    /\ wallScan' = WallScanAt(wallScan.EdgeIndex + 1, 0, FALSE)
    /\ UNCHANGED <<envVars, topologyVars, gridVars, floorVars, wallVars, ceilingVars,
                   cornerVars, doorVars, chunkVars, actorVars, fault, last>>

\* The loop of the last edge is over: the upper layers, and the return.
GenerateWallsEnd ==
    /\ wallScan.op = "GenerateWalls"
    /\ ~ScanLoopRuns
    /\ wallScan.EdgeIndex = Len(EdgeOfIndex)
    /\ PlacedWallMeshes' =
          SpawnTopWallLayer(
              SpawnMiddleWallLayers(<<>>, PlacedBaseWallSegments, 1,
                                    RoomData.WallStyleData[1].WallHeight),
              RoomData.WallStyleData[1].WallHeight)
    /\ wallScan' = Idle
    /\ last' = IF Strategy = "Uniform" THEN DoorCall("GenerateWalls", TRUE)
               ELSE NoArgCall("GenerateWalls", TRUE)
    /\ UNCHANGED <<envVars, topologyVars, gridVars, floorVars, PlacedBaseWallSegments,
                   ceilingVars, cornerVars, doorVars, chunkVars, actorVars, fault>>

\* A module that spans no cell.
Wall0 == WallModule(0, "SM_Wall_0", "None", "None", "None")

\* Wall-module tables: unit modules, larger modules with and without a unit
\* module behind them, a module without base mesh, a module of footprint 0.
ScanModuleTables ==
    {<<>>, <<Wall1Top>>, <<Wall2Full, Wall1Top>>, <<Wall2Mid>>, <<Wall3Mid, Wall1Base>>,
     <<Wall2NoBase, Wall1Base>>, <<Wall0>>, <<Wall2Mid, Wall0>>}

ScanRoomDataChoices ==
    {[DefaultRoomData EXCEPT
         !.WallStyleData = <<WallStyle(modules)>>,
         !.ForcedWallPlacements = forced,
         !.DefaultDoorData = "DA_Door",
         !.bGenerateStandardDoorway = bDoorway,
         !.bSetStandardDoorwayEdge = TRUE,
         !.StandardDoorwayEdge = "East"] :
        modules \in ScanModuleTables,
        forced \in {<<>>, <<ForcedWall("North", 1, Wall2Full)>>},
        bDoorway \in BOOLEAN}

ScanGridSizes == {Pt(MinChunkyGrid, MinChunkyGrid + 1), Pt(ChunkyGrid, MinChunkyGrid)}

InitWallScan ==
    /\ Strategy \in {"Uniform", "Chunky"}
    /\ RoomData \in ScanRoomDataChoices
    /\ ChunkParams = NoProtrusions
    /\ DoorDataAsset = DefaultDoorStyle
    /\ GeneratorConstructed
    /\ ActorUnused

NextWallScan ==
    \/ \E size \in ScanGridSizes : wallScan = Idle /\ InitializeIfNeeded(size)
    \/ wallScan = Idle /\ UniformCreateGrid
    \/ \E seed \in {0} : wallScan = Idle /\ ChunkyCreateGrid(seed)
    \/ \E s \in {EdgeOfIndex} : GenerateWallsBegin(s)
    \/ GenerateWallsIteration
    \/ GenerateWallsNextEdge
    \/ GenerateWallsEnd

SpecWallScan == InitWallScan /\ [][NextWallScan]_vars

\* The step is an iteration of a packing loop that stays in the loop.
PackingLoopIteration ==
    /\ wallScan.op = "GenerateWalls"
    /\ wallScan'.op = "GenerateWalls"
    /\ wallScan'.EdgeIndex = wallScan.EdgeIndex
    /\ ~wallScan'.bLoopLeft

\* C28: every iteration of the packing loops of FillWallEdge and
\* FillChunkyWallEdge strictly advances the scan offset, for every edge length
\* and every wall-module table, so that GenerateWalls returns.
C28_WallPackingAdvances ==
    [][PackingLoopIteration => wallScan'.CurrentCell > wallScan.CurrentCell]_vars

\* ------------------------------------------------------------------
\* Properties of the floor coverage
\* ------------------------------------------------------------------
\* The grid is as CreateGrid of the generator's strategy leaves it.
IsFreshGrid ==
    /\ GridSize.X > 0 /\ GridSize.Y > 0
    /\ Len(GridState) = GridSize.X * GridSize.Y
    /\ \A i \in 1..Len(GridState) :
          IF Strategy = "Uniform" THEN GridState[i] = ECT_Empty
          ELSE GridState[i] \in {ECT_Void, ECT_Custom}

\* The floor pool holds a tile whose footprint is 1x1.
PoolHasUnitTile ==
    /\ Len(RoomData.FloorStyleData) > 0
    /\ \E i \in 1..Len(RoomData.FloorStyleData[1].FloorTilePool) :
          CalculateFootprint(RoomData.FloorStyleData[1].FloorTilePool[i]) = Pt(1, 1)

\* The step is a successful GenerateFloor on a freshly created grid, with a
\* 1x1 tile in the pool.
FloorGeneratedOnFreshGrid ==
    /\ IsFreshGrid
    /\ PoolHasUnitTile
    /\ last'.op = "GenerateFloor" /\ last'.ret /\ ~fault'

\* The number of records of PlacedFloorMeshes' that cover the cell.
RecordsCovering(Cell) ==
    Cardinality({r \in 1..Len(PlacedFloorMeshes') :
                    Cell \in RecordCells(PlacedFloorMeshes'[r])})

\* C29: with a 1x1 tile in the floor pool, a successful GenerateFloor on a
\* freshly created grid leaves no cell in the fillable target state (Empty for
\* uniform, Custom for chunky), and every FloorMesh cell is covered by exactly
\* one record of PlacedFloorMeshes.
C29_CompleteFloorCoverage ==
    [][FloorGeneratedOnFreshGrid =>
          /\ \A i \in 1..Len(GridState') : GridState'[i] # FloorTargetCellType
          /\ \A Cell \in GridCells :
                GridState'[CoordinateToIndex(Cell, GridSize.X) + 1] = ECT_FloorMesh
                    => RecordsCovering(Cell) = 1]_vars

\* ------------------------------------------------------------------
\* The shapes of a chunky room
\* ------------------------------------------------------------------
\* The draws of one protrusion: edge, width, depth, position.
ProtrusionDraws ==
    {e + 4 * w + 16 * d + 64 * pos : e \in 0..3, w \in 0..1, d \in 0..1, pos \in 0..2}

\* The seeds whose stream gives every pair of protrusions.
TwoProtrusionSeeds == {4 * p1 + 1024 * p2 : p1 \in ProtrusionDraws, p2 \in ProtrusionDraws}

\* Up to one protrusion with any seed, and two protrusions with every pair of
\* draws; sizes of two chunks, of three chunks, and of two or three chunks.
ShapeParams ==
    {Params(0, 1, size[1], size[2], pct[1], pct[2], -1) :
        size \in {<<2, 2>>, <<2, 3>>, <<3, 3>>}, pct \in {<<3, 4>>, <<19, 20>>}}
    \cup {Params(2, 2, 2, 3, 19, 20, seed) : seed \in TwoProtrusionSeeds}

ShapeGridSizes ==
    {Pt(MaxChunkSide, MaxChunkSide), Pt(MaxChunkSide + 2, MaxChunkSide),
     Pt(MaxChunkSide + 1, ChunkyGrid + 1)}

InitShape ==
    /\ Strategy = "Chunky"
    /\ RoomData = DefaultRoomData
    /\ ChunkParams \in ShapeParams
    /\ DoorDataAsset = DefaultDoorStyle
    /\ GeneratorConstructed
    /\ ActorUnused

NextShape ==
    \/ \E size \in ShapeGridSizes : InitializeIfNeeded(size)
    \/ \E seed \in StreamSeeds : ChunkyCreateGrid(seed)
    \/ ClearGrid

SpecShape == InitShape /\ [][NextShape]_vars

\* The cells of the grid whose state is ECT_Custom.
CustomCells == {Cell \in GridCells : StateAt(Cell) = ECT_Custom}

\* The cells of All that a path of edge-adjacent cells of All joins to S.
RECURSIVE Reachable(_, _)
Reachable(S, All) ==
    LET Grown == S \cup {Cell \in All :
                            \/ Pt(Cell.X + 1, Cell.Y) \in S
                            \/ Pt(Cell.X - 1, Cell.Y) \in S
                            \/ Pt(Cell.X, Cell.Y + 1) \in S
                            \/ Pt(Cell.X, Cell.Y - 1) \in S}
    IN  IF Grown = S THEN S ELSE Reachable(Grown, All)

IsFourConnected(All) ==
    All = {} \/ Reachable({CHOOSE Cell \in All : TRUE}, All) = All

\* CreateGrid of a chunky generator has just built the grid.
ChunkyGridCreated ==
    /\ Strategy = "Chunky"
    /\ last.op = "CreateGrid"
    /\ bIsInitialized
    /\ ~fault
    /\ ChunkGridSize = Pt(GridSize.X \div 2, GridSize.Y \div 2)
    /\ Len(GridState) = GridSize.X * GridSize.Y
    /\ ChunkParams.MinProtrusionSizeChunks >= 2

\* C30: after a successful chunky CreateGrid every cell is Void or Custom, the
\* four cells of each 2x2 chunk have the same state, and the Custom cells are
\* 4-connected: every kept protrusion touches or overlaps the base rectangle.
C30_ChunkAlignedConnected ==
    ChunkyGridCreated =>
        /\ \A i \in 1..Len(GridState) : GridState[i] \in {ECT_Void, ECT_Custom}
        /\ \A cx \in 0..(ChunkGridSize.X - 1) : \A cy \in 0..(ChunkGridSize.Y - 1) :
              \A dx \in 0..1 : \A dy \in 0..1 :
                  StateAt(Pt(2 * cx + dx, 2 * cy + dy)) = StateAt(Pt(2 * cx, 2 * cy))
        /\ IsFourConnected(CustomCells)

\* A grid with two protrusions' worth of cells outside the base rectangle, on
\* two sides of it, and void cells left.
C30_Witness ==
    /\ ChunkyGridCreated
    /\ \E Cell \in CustomCells : Cell.X >= BaseRoomSize.X /\ Cell.Y < BaseRoomSize.Y
    /\ \E Cell \in CustomCells : Cell.Y >= BaseRoomSize.Y
    /\ \E Cell \in GridCells : StateAt(Cell) = ECT_Void

====
